---- MODULE Spec2Model ----
(***************************************************************************)
(* WhaleRadar engine (src/src/main.rs): per-pair trade analytics, ticker   *)
(* anomaly analytics, the signal ring, the self-evaluator and the          *)
(* maintenance sweep, as a state machine.                                  *)
(*                                                                         *)
(* Numbers.  The program computes in f64.  The model computes in fixed     *)
(* point: prices and volumes are whole units, timestamps are half seconds, *)
(* and every ratio, percentage, score, EWMA and weight is kept in          *)
(* thousandths ("milli"), truncated toward zero after each multiplication  *)
(* or division.  Thresholds are compared in the same unit, so 75.0 % is    *)
(* 75000 and the weight 2.2 is 2200.                                       *)
(*                                                                         *)
(* Option<T> is a sequence of length 0 (None) or 1 (Some).                 *)
(***************************************************************************)
EXTENDS Integers, Sequences, FiniteSets, TLC

\* ------------------------------------------------------------------ bounds
\* input steps (trade, ticker sample, book message, clock step) per run
MaxSteps == 3
\* input steps per run of the evaluator specification
MaxEvalSteps == 3
\* input steps per run of the weight-range specification
MaxClampSteps == 3
\* input steps per run of the ring specification
MaxRingSteps == 3
MaxFeedSteps == 3
MaxLockSteps == 3
MaxStarSteps == 3
MaxFrameSteps == 2
MaxStreak == 2
MaxNewsSteps == 2
MaxPaperSteps == 4
MaxTwinSteps == 3
MaxFlowSteps == 4
MaxBookSteps == 4
MaxSweepSteps == 4
MaxConfigSteps == 3
MaxCleanupSteps == 4
MaxPassSteps == 4
MaxDeskSteps == 4
MaxFlagSteps == 4
MaxDueSteps == 3
\* how far the second engine's clock is ahead at the start, seconds
TwinLag == 7
\* scanner rounds behind its start state
RingRounds == 199
\* days of rising and of falling prices behind its start states
RisingRuns == 10
FallingRuns == 14

\* ------------------------------------------------------- program constants
RingCap == 400
EvalHorizon == 300
ShortWindow == 60
LongWindow == 300
WeightMin == 200
FirstPort == 8080
LastPort == 8090
WeightMax == 5000

\* ----------------------------------------------------------------- helpers
None == <<>>
Some(x) == <<x>>
IsSome(o) == o # <<>>
UnwrapOr(o, d) == IF o = <<>> THEN d ELSE o[1]

Milli(x) == x * 1000
\* seconds -> half-second ticks, and f64::floor of a tick count to seconds
Secs(n) == n * 2
\* TLA+ \div floors; the model truncates toward zero, as a cast of the f64 would
Div(a, b) == IF a >= 0 THEN a \div b ELSE -((-a) \div b)
Floor(ts) == ts \div 2
Max(a, b) == IF a >= b THEN a ELSE b
Min(a, b) == IF a <= b THEN a ELSE b
Abs(a) == IF a >= 0 THEN a ELSE -a

\* F of the value of v, with v evaluated once
Strict(v, F(_)) == CHOOSE r \in { F(x) : x \in {v} } : TRUE

RECURSIVE SumVol(_)
SumVol(s) == IF s = <<>> THEN 0 ELSE Head(s)[2] + SumVol(Tail(s))

\* e <- 0.9 e + 0.1 x, seeded with x; e in milli, x in whole units
Ewma(prev, x) == Div(9 * UnwrapOr(prev, Milli(x)) + Milli(x), 10)
\* the same over a sample that is already in milli
EwmaMilli(prev, xm) == Div(9 * UnwrapOr(prev, xm) + xm, 10)

Pairs == {"X/EUR", "Y/EUR"}

\* ---------------------------------------------------------------- defaults
DefaultTradeState ==
  [ present |-> TRUE,
    buy_volume |-> 0, sell_volume |-> 0, trade_count |-> 0,
    ewma_trade_size |-> None, ewma_notional |-> None, ewma_volume |-> None,
    last_whale |-> FALSE, last_whale_side |-> None,
    last_whale_volume |-> None, last_whale_notional |-> None,
    last_early |-> None, last_alpha |-> None,
    last_score |-> 0, last_rating |-> None,
    last_flow_pct |-> 0, last_dir |-> "",
    recent_buys |-> <<>>, recent_sells |-> <<>>,
    recent_buys_5m |-> <<>>, recent_sells_5m |-> <<>>,
    last_flow_pct_5m |-> 0, last_dir_5m |-> "",
    recent_prices |-> <<>>,
    last_pump_score |-> 0, last_pump_signal |-> None,
    whale_pred_score |-> 0, whale_pred_label |-> None,
    last_update_ts |-> 0,
    news_sentiment |-> 0,
    recent_anom |-> FALSE ]

\* a key that is not in the DashMap
AbsentTradeState == [DefaultTradeState EXCEPT !.present = FALSE]

DefaultCandleState ==
  [ open |-> None, high |-> None, low |-> None, close |-> None,
    pct_change |-> None, first_ts |-> None, last_ts |-> None,
    last_update_ts |-> 0 ]

DefaultTickerState ==
  [ last_price |-> None, last_vol24h |-> None,
    ewma_vol24h |-> None, ewma_abs_return |-> None,
    last_anom_ts |-> None, last_anom_dir |-> None,
    last_anom_strength |-> None ]

\* no entry in the orderbooks map
NoOrderbook == [ present |-> FALSE, bids |-> <<>>, asks |-> <<>>, timestamp |-> 0 ]

DefaultWeights ==
  [ flow_w |-> 2200, price_w |-> 700, whale_w |-> 1400,
    volume_w |-> 1300, anomaly_w |-> 1500, trend_w |-> 1100 ]

\* ------------------------------------------------------------ signal ring
\* a ring that refuses the new event when it is full
RingPushKeepOld(buf, ev) ==
  IF Len(buf) >= RingCap THEN buf ELSE Append(buf, ev)

\* Engine::push_signal on the ring alone: append, then drop the oldest overflow
RingPush(buf, ev) ==
  LET b1 == Append(buf, ev)
  IN  IF Len(b1) > RingCap
        THEN SubSeq(b1, Len(b1) - RingCap + 1, Len(b1))
        ELSE b1

\* ---------------------------------------------------------- trade analytics
\* whale detection: notional > 5000 and notional > 2.5 * n1 (n1 in milli)
IsWhale(notional, n1) ==
  notional > 5000 /\ Milli(notional) * 10 > n1 * 25

\* a retain that prunes nothing
RetainAll(win, cutoff) == win

\* retain(|(x, _)| *x >= cutoff)
Retain(win, cutoff) == SelectSeq(win, LAMBDA e : e[1] >= cutoff)

\* the fraction taken of the sell sum instead of the buy sum
SellFraction(b, s) == Div(s * 1000000, b + s)

\* buy fraction b / (b + s) in millionths
BuyFraction(b, s) == Div(b * 1000000, b + s)

\* the flow with a buy fraction at a threshold counted as beyond it
FlowOfLoose(b, s, hi, lo) ==
  IF b + s > 0
    THEN LET f == BuyFraction(b, s)
         IN  IF f >= hi THEN [pct |-> Div(f, 10), dir |-> "BUY"]
             ELSE IF f <= lo THEN [pct |-> Div(1000000 - f, 10), dir |-> "SELL"]
             ELSE [pct |-> 50000, dir |-> "NEUTR"]
    ELSE [pct |-> 50000, dir |-> "NEUTR"]

\* (flow_pct, dir) of a window with buy sum b and sell sum s; hi and lo are
\* the thresholds on the buy fraction, in millionths
FlowOf(b, s, hi, lo) ==
  IF b + s > 0
    THEN LET f == BuyFraction(b, s)
         IN  IF f > hi THEN [pct |-> Div(f, 10), dir |-> "BUY"]
             ELSE IF f < lo THEN [pct |-> Div(1000000 - f, 10), dir |-> "SELL"]
             ELSE [pct |-> 50000, dir |-> "NEUTR"]
    ELSE [pct |-> 50000, dir |-> "NEUTR"]

FlowShort(b, s) == FlowOf(b, s, 750000, 250000)
FlowLong(b, s) == FlowOf(b, s, 700000, 300000)

\* anomaly strength taken from the TickerState when its record is 0..600 s old
AnomInfo(tk, ts_int) ==
  IF IsSome(tk.last_anom_ts)
       /\ ts_int - tk.last_anom_ts[1] >= 0
       /\ ts_int - tk.last_anom_ts[1] <= 600
    THEN [strength |-> UnwrapOr(tk.last_anom_strength, 0), recent |-> TRUE]
    ELSE [strength |-> 0, recent |-> FALSE]

FlowScore(fs, fl) ==
  LET short == IF fs.pct > 75000 THEN 3000
               ELSE IF fs.pct > 65000 THEN 2000
               ELSE IF fs.pct > 55000 THEN 1000 ELSE 0
      long  == IF fl.dir = "BUY" /\ fl.pct > 75000 THEN 2000
               ELSE IF fl.dir = "BUY" /\ fl.pct > 65000 THEN 1000 ELSE 0
  IN  Min(short + Div(long, 2), 3000)

PriceScore(pct) ==
  IF pct > 2000 THEN 3000 ELSE IF pct > 1000 THEN 2000
  ELSE IF pct > 300 THEN 1000 ELSE 0

WhaleScoreBase(is_whale, notional, n1) ==
  IF ~is_whale THEN 0
  ELSE IF notional > 50000 \/ Milli(notional) > n1 * 6 THEN 3000
  ELSE IF notional > 20000 /\ Milli(notional) > n1 * 4 THEN 2000
  ELSE 1000

Take(s, n) == SubSeq(s, 1, Min(Len(s), n))

\* the order book is used when it is 0..10 s older than the trade
\* a book taken for fresh whenever it is not more than 10 s behind
BookFreshAhead(ob, ts_int) == ob.present /\ ts_int - ob.timestamp <= 10

BookFresh(ob, ts_int) ==
  ob.present /\ ts_int - ob.timestamp >= 0 /\ ts_int - ob.timestamp <= 10

BookTotal(ob) == SumVol(Take(ob.bids, 10)) + SumVol(Take(ob.asks, 10))

\* bid_volume / total_volume in millionths
BidRatio(ob) == Div(SumVol(Take(ob.bids, 10)) * 1000000, BookTotal(ob))

\* +0.5 and +0.3 on the whale score from order-book pressure on the trade's side
BookBonus(ob, ts_int, side) ==
  IF BookFresh(ob, ts_int) /\ BookTotal(ob) > 0
    THEN LET r == BidRatio(ob)
         IN  (IF (side = "b" /\ r > 650000) \/ (side = "s" /\ r < 350000)
                THEN 500 ELSE 0)
             + (IF (r > 750000 /\ side = "b") \/ (r < 250000 /\ side = "s")
                  THEN 300 ELSE 0)
    ELSE 0

WhaleScore(is_whale, notional, n1, ob, ts_int, side) ==
  Min(WhaleScoreBase(is_whale, notional, n1) + BookBonus(ob, ts_int, side), 4000)

\* volume / v1 in milli (v1 in milli)
VolRatio(volume, v1) == IF v1 > 0 THEN Div(Milli(volume) * 1000, v1) ELSE 1000

VolumeScore(vr) ==
  IF vr > 2500 THEN 3000 ELSE IF vr > 1500 THEN 2000
  ELSE IF vr > 1200 THEN 1000 ELSE 0

AnomalyScore(an) ==
  IF ~an.recent THEN 0
  ELSE IF an.strength > 80000 THEN 3000
  ELSE IF an.strength > 40000 THEN 2000
  ELSE IF an.strength > 0 THEN 1000 ELSE 0

TrendScore(is_whale, side, pct, flow_pct) ==
  IF is_whale /\ side = "b" /\ pct > 0 /\ flow_pct > 60000 THEN 1000 ELSE 0

\* percentage move from p_old to price, in milli
PctMove(price, p_old) == Div((price - p_old) * 100000, p_old)

\* the loop over recent_prices: the last sample whose age lies in [lo, hi]
\* seconds decides the return; a negative return counts as 0
RECURSIVE BandReturn(_, _, _, _, _, _)
BandReturn(prices, ts, price, lo, hi, acc) ==
  IF prices = <<>> THEN Max(acc, 0)
  ELSE LET pt == Head(prices)[1]
           p_old == Head(prices)[2]
           age == ts - pt
           hit == p_old > 0 /\ price > 0 /\ age >= Secs(lo) /\ age <= Secs(hi)
       IN  BandReturn(Tail(prices), ts, price, lo, hi,
                      IF hit THEN PctMove(price, p_old) ELSE acc)

PumpScore(r5, r30, r120, fs, fl, vr, whale_score) ==
  LET raw == (IF r5 > 300 THEN (r5 - 300) * 2 ELSE 0)
             + (IF r30 > 1000 THEN r30 - 1000 ELSE 0)
             + (IF r120 > 2000 THEN Div(r120 - 2000, 2) ELSE 0)
             + (IF fs.dir = "BUY" /\ fs.pct > 65000
                  THEN Div((fs.pct - 65000) * 8, 100) ELSE 0)
             + (IF fl.dir = "BUY" /\ fl.pct > 60000
                  THEN Div((fl.pct - 60000) * 6, 100) ELSE 0)
             + (IF vr > 1500 THEN vr - 1500 ELSE 0)
             + (IF whale_score > 0 THEN Div(whale_score * 7, 10) ELSE 0)
  IN  Min(Max(raw, 0), 10000)

\* pump_conf in milli. In f64 the bumps 0.4, 0.3, 0.2, 0.3, 0.2, 0.2, 0.2,
\* added in this order, give 0.8999999999999999 for every choice that is 0.9
\* in decimals but one: 0.4 + 0.2 + 0.3 (ret_5s, ret_120s and the short flow
\* alone) is 0.9000000000000001, which 901 stands for
PumpConf(r5, r30, r120, fs, fl, vr, whale_score) ==
  LET b5 == r5 > 500
      b30 == r30 > 1500
      b120 == r120 > 3000
      bfs == fs.dir = "BUY" /\ fs.pct > 70000
      bfl == fl.dir = "BUY" /\ fl.pct > 65000
      bvr == vr > 2000
      bwh == whale_score >= 2000
      sum == (IF b5 THEN 400 ELSE 0) + (IF b30 THEN 300 ELSE 0)
             + (IF b120 THEN 200 ELSE 0) + (IF bfs THEN 300 ELSE 0)
             + (IF bfl THEN 200 ELSE 0) + (IF bvr THEN 200 ELSE 0)
             + (IF bwh THEN 200 ELSE 0)
  IN  IF b5 /\ ~b30 /\ b120 /\ bfs /\ ~bfl /\ ~bvr /\ ~bwh THEN 901 ELSE sum

\* pump_conf >= 0.9 is conf > 900 here, by the above; pump_conf >= 0.5 is
\* exact
PumpLabel(score, conf, dir) ==
  IF score >= 7000 /\ conf > 900 /\ dir = "BUY" THEN "MEGA_PUMP"
  ELSE IF score >= 4000 /\ conf >= 500 /\ dir = "BUY" THEN "EARLY_PUMP"
  ELSE "NONE"

\* weights and scores in milli; the total in milli
TotalScore(w, sc) ==
  Div(w.flow_w * sc.flow + w.price_w * sc.price + w.whale_w * sc.whale
      + w.volume_w * sc.volume + w.anomaly_w * sc.anomaly
      + w.trend_w * sc.trend, 1000)

Rating(total) ==
  IF total >= 7500 THEN "ALPHA BUY"
  ELSE IF total >= 5000 THEN "STRONG BUY"
  ELSE IF total >= 3500 THEN "BUY"
  ELSE IF total >= 2200 THEN "EARLY BUY"
  ELSE "NONE"

WhalePredScore(is_whale, fs, fl, volume, s1, r5, r30, pct, vr, ob, ts_int) ==
  LET raw == (IF ~is_whale /\ fs.dir = "BUY" /\ fs.pct > 60000
                THEN Div((fs.pct - 60000) * 8, 100) ELSE 0)
             + (IF ~is_whale /\ fl.dir = "BUY" /\ fl.pct > 55000
                  THEN Div((fl.pct - 55000) * 6, 100) ELSE 0)
             + (IF ~is_whale /\ Milli(volume) * 10 < s1 * 8 THEN 1000 ELSE 0)
             + (IF Abs(r5) < 500 /\ Abs(r30) < 1000 /\ pct >= -500
                  THEN 1000 ELSE 0)
             + (IF vr < 1300 THEN 500 ELSE 0)
             + (IF BookFresh(ob, ts_int) /\ BookTotal(ob) > 0
                     /\ BidRatio(ob) > 650000
                  THEN Div((BidRatio(ob) - 650000) * 2, 1000) ELSE 0)
  IN  Min(Max(raw, 0), 10000)

WhalePredLabel(score) ==
  IF score >= 7000 THEN "HIGH" ELSE IF score >= 4000 THEN "MEDIUM"
  ELSE IF score >= 2000 THEN "LOW" ELSE "NONE"

\* the early flag by the rating alone
NewEarlyAnyDir(dir, rating) ==
  IF rating \in {"EARLY BUY", "BUY", "STRONG BUY", "ALPHA BUY"}
    THEN "BUY" ELSE "NONE"

NewEarly(dir, rating) ==
  IF dir = "BUY" /\ rating \in {"EARLY BUY", "BUY", "STRONG BUY", "ALPHA BUY"}
    THEN "BUY" ELSE "NONE"

NewAlpha(dir, rating) ==
  IF dir = "BUY" /\ rating \in {"STRONG BUY", "ALPHA BUY"} THEN "BUY" ELSE "NONE"

\* the candle update of handle_trade
TradeCandle(c0, price, ts_int) ==
  IF c0.open = None
    THEN [ open |-> Some(price), high |-> Some(price), low |-> Some(price),
           close |-> Some(price), pct_change |-> Some(0),
           first_ts |-> Some(ts_int), last_ts |-> Some(ts_int),
           last_update_ts |-> ts_int ]
    ELSE [ c0 EXCEPT !.high = Some(Max(c0.high[1], price)),
                     !.low = Some(Min(c0.low[1], price)),
                     !.close = Some(price),
                     !.last_ts = Some(ts_int),
                     !.pct_change = Some(PctMove(price, c0.open[1])),
                     !.last_update_ts = ts_int ]

\* a SignalEvent as handle_trade builds it (evaluated = false, no return yet);
\* seq is history: the number of the push that put the event into the ring
TradeEvent(typ, direction, strength, whale, x) ==
  [ ts |-> x.ts_int, pair |-> x.pair, signal_type |-> typ,
    direction |-> direction, strength |-> strength,
    flow_pct |-> x.fs.pct, pct |-> x.pct, whale |-> whale,
    whale_side |-> x.side, volume |-> x.volume, notional |-> x.notional,
    price |-> x.price, rating |-> x.rating, total_score |-> x.total,
    flow_score |-> x.sc.flow, price_score |-> x.sc.price,
    whale_score |-> x.sc.whale, volume_score |-> x.sc.volume,
    anomaly_score |-> x.sc.anomaly, trend_score |-> x.sc.trend,
    evaluated |-> FALSE, ret_5m |-> None, eval_horizon_sec |-> None,
    seq |-> 0 ]

\* the locals handle_trade computes for one trade: t0 and c0 are the pair's
\* TradeState and CandleState (defaults when absent), tk its TickerState,
\* ob its OrderbookState, w the weights; ts is in half seconds
TradeCalc(pair, t0, c0, tk, ob, w, price, volume, side, ts) ==
  LET ts_int == Floor(ts)
      notional == price * volume
      s1 == Ewma(t0.ewma_trade_size, volume)
      n1 == Ewma(t0.ewma_notional, notional)
      v1 == Ewma(t0.ewma_volume, volume)
      is_whale == IsWhale(notional, n1)
      c1 == TradeCandle(c0, price, ts_int)
      pct == UnwrapOr(c1.pct_change, 0)
      prices == Retain(Append(t0.recent_prices, <<ts, price>>), ts - Secs(LongWindow))
      buys == Retain(IF side = "b" THEN Append(t0.recent_buys, <<ts, volume>>)
                                   ELSE t0.recent_buys, ts - Secs(ShortWindow))
      sells == Retain(IF side = "b" THEN t0.recent_sells
                                    ELSE Append(t0.recent_sells, <<ts, volume>>),
                      ts - Secs(ShortWindow))
      fs == FlowShort(SumVol(buys), SumVol(sells))
      buys5 == Retain(IF side = "b" THEN Append(t0.recent_buys_5m, <<ts, volume>>)
                                    ELSE t0.recent_buys_5m, ts - Secs(LongWindow))
      sells5 == Retain(IF side = "b" THEN t0.recent_sells_5m
                                     ELSE Append(t0.recent_sells_5m, <<ts, volume>>),
                       ts - Secs(LongWindow))
      fl == FlowLong(SumVol(buys5), SumVol(sells5))
      an == AnomInfo(tk, ts_int)
      vr == VolRatio(volume, v1)
      sc == [ flow |-> FlowScore(fs, fl),
              price |-> PriceScore(pct),
              whale |-> WhaleScore(is_whale, notional, n1, ob, ts_int, side),
              volume |-> VolumeScore(vr),
              anomaly |-> AnomalyScore(an),
              trend |-> TrendScore(is_whale, side, pct, fs.pct) ]
      r5 == BandReturn(prices, ts, price, 5, 7, 0)
      r30 == BandReturn(prices, ts, price, 30, 40, 0)
      r120 == BandReturn(prices, ts, price, 110, 130, 0)
      pump_score == PumpScore(r5, r30, r120, fs, fl, vr, sc.whale)
      pump_conf == PumpConf(r5, r30, r120, fs, fl, vr, sc.whale)
      pump_label == PumpLabel(pump_score, pump_conf, fs.dir)
      total == TotalScore(w, sc)
      rating == Rating(total)
      pred_score == WhalePredScore(is_whale, fs, fl, volume, s1, r5, r30, pct,
                                   vr, ob, ts_int)
      pred_label == WhalePredLabel(pred_score)
  IN  [ pair |-> pair, price |-> price, volume |-> volume, side |-> side,
        ts |-> ts, ts_int |-> ts_int, notional |-> notional,
        s1 |-> s1, n1 |-> n1, v1 |-> v1, is_whale |-> is_whale,
        c1 |-> c1, pct |-> pct, prices |-> prices,
        buys |-> buys, sells |-> sells, fs |-> fs,
        buys5 |-> buys5, sells5 |-> sells5, fl |-> fl,
        sc |-> sc, pump_score |-> pump_score, pump_label |-> pump_label,
        total |-> total, rating |-> rating,
        pred_score |-> pred_score, pred_label |-> pred_label,
        new_early |-> NewEarly(fs.dir, rating),
        new_alpha |-> NewAlpha(fs.dir, rating) ]

\* the volume counted on both sides, whatever the side of the trade
BuyVolumeAnySide(buy_volume, side, volume) == buy_volume + volume

\* buy_volume after a trade
BuyVolume(buy_volume, side, volume) ==
  IF side = "b" THEN buy_volume + volume ELSE buy_volume

\* sell_volume after a trade
SellVolume(sell_volume, side, volume) ==
  IF side = "b" THEN sell_volume ELSE sell_volume + volume

\* the TradeState handle_trade leaves behind
TradeStateAfter(t0, x) ==
  [ t0 EXCEPT
      !.last_update_ts = x.ts_int,
      !.buy_volume = BuyVolume(@, x.side, x.volume),
      !.sell_volume = SellVolume(@, x.side, x.volume),
      !.trade_count = @ + 1,
      !.ewma_trade_size = Some(x.s1),
      !.ewma_notional = Some(x.n1),
      !.ewma_volume = Some(x.v1),
      !.last_whale = x.is_whale,
      !.last_whale_side = IF x.is_whale THEN Some(x.side) ELSE None,
      !.last_whale_volume = IF x.is_whale THEN Some(x.volume) ELSE None,
      !.last_whale_notional = IF x.is_whale THEN Some(x.notional) ELSE None,
      !.recent_prices = x.prices,
      !.recent_buys = x.buys,
      !.recent_sells = x.sells,
      !.last_flow_pct = x.fs.pct,
      !.last_dir = x.fs.dir,
      !.recent_buys_5m = x.buys5,
      !.recent_sells_5m = x.sells5,
      !.last_flow_pct_5m = x.fl.pct,
      !.last_dir_5m = x.fl.dir,
      !.last_pump_score = x.pump_score,
      !.last_pump_signal = Some(x.pump_label),
      !.last_score = x.total,
      !.last_rating = Some(x.rating),
      !.whale_pred_score = x.pred_score,
      !.whale_pred_label = Some(x.pred_label),
      !.last_early = Some(x.new_early),
      !.last_alpha = Some(x.new_alpha) ]

\* the edge tests of handle_trade, each against the label the pair's
\* TradeState held when the handler started
\* a prediction test on the level: every HIGH fires
PredLevel(t0, x) == x.pred_label = "HIGH"
PredFires(t0, x) ==
  x.pred_label = "HIGH" /\ UnwrapOr(t0.whale_pred_label, "NONE") # "HIGH"
\* a pump test on the level: any pump label fires
PumpLevel(t0, x) == x.pump_label # "NONE"
PumpFires(t0, x) ==
  x.pump_label # "NONE" /\ x.pump_label # UnwrapOr(t0.last_pump_signal, "NONE")
\* a whale test on the level: any whale trade fires
WhaleLevel(t0, x) == x.is_whale
WhaleFires(t0, x) == x.is_whale /\ ~t0.last_whale
\* an early test on the level: every early BUY fires
EarlyLevel(t0, x) == x.new_early # "NONE"
EarlyFires(t0, x) ==
  x.new_early # "NONE" /\ x.new_early # UnwrapOr(t0.last_early, "NONE")
AlphaFires(t0, x) ==
  x.new_alpha # "NONE" /\ x.new_alpha # UnwrapOr(t0.last_alpha, "NONE")

\* the SignalEvents handle_trade pushes, in the order it pushes them
TradeEvents(t0, x) ==
  (IF PredFires(t0, x)
     THEN <<TradeEvent("WH_PRED", "BUY", x.pred_score, x.is_whale, x)>> ELSE <<>>)
  \o (IF PumpFires(t0, x)
        THEN <<TradeEvent(x.pump_label, "BUY", x.pump_score, x.is_whale, x)>>
        ELSE <<>>)
  \o (IF WhaleFires(t0, x)
        THEN <<TradeEvent("WHALE", IF x.side = "b" THEN "BUY" ELSE "SELL",
                          Milli(x.notional), TRUE, x)>>
        ELSE <<>>)
  \o (IF EarlyFires(t0, x)
        THEN <<TradeEvent("EARLY", x.new_early, x.total, x.is_whale, x)>> ELSE <<>>)
  \o (IF AlphaFires(t0, x)
        THEN <<TradeEvent("ALPHA", x.new_alpha, x.total, x.is_whale, x)>> ELSE <<>>)

\* the TopRow appended to the stars history with a WH_PRED on a pair whose
\* recent_anom flag is set (the fields the model keeps)
StarsRows(t0, x) ==
  IF PredFires(t0, x) /\ t0.recent_anom
    THEN << [ ts |-> x.ts_int, pair |-> x.pair, price |-> x.price,
              whale_pred_score |-> x.pred_score, signal_type |-> "WH_PRED" ] >>
    ELSE <<>>

\* --------------------------------------------------------- ticker analytics
\* the locals handle_ticker computes for one sample (vol24h may be 0)
TickerCalc(tk, last_p, vol24h, open) ==
  LET prev_price == UnwrapOr(tk.last_price, last_p)
      prev_vol == UnwrapOr(tk.last_vol24h, vol24h)
      day_ret == IF open > 0 THEN PctMove(last_p, open) ELSE 0
      jump == IF prev_price > 0 THEN Abs(PctMove(last_p, prev_price)) ELSE 0
      vol_ratio == IF prev_vol > 0 THEN Div(Milli(vol24h), prev_vol) ELSE 1000
      ew_vol1 == Ewma(tk.ewma_vol24h, vol24h)
      ew_ret1 == EwmaMilli(tk.ewma_abs_return, jump)
      score == jump * 2 + Div(Abs(day_ret), 2)
               + (IF vol_ratio > 1000 THEN (vol_ratio - 1000) * 20 ELSE 0)
               + ew_ret1
  IN  [ prev_price |-> prev_price, day_ret |-> day_ret, jump |-> jump,
        vol_ratio |-> vol_ratio, ew_vol1 |-> ew_vol1, ew_ret1 |-> ew_ret1,
        score |-> score ]

\* the test of the score alone
IsAnomalyByScore(k) == k.score > 40000

IsAnomaly(k) == k.score > 40000 /\ (k.jump > 300 \/ k.vol_ratio > 2000)

AnomDirection(last_p, k) == IF last_p >= k.prev_price THEN "BUY" ELSE "SELL"

\* the candle update of handle_ticker
TickerCandle(c0, last_p, open, ts_int) ==
  IF c0.open = None
    THEN [ open |-> Some(open), high |-> Some(last_p), low |-> Some(last_p),
           close |-> Some(last_p), pct_change |-> Some(PctMove(last_p, open)),
           first_ts |-> Some(ts_int), last_ts |-> Some(ts_int),
           last_update_ts |-> ts_int ]
    ELSE [ c0 EXCEPT !.close = Some(last_p),
                     !.high = Some(Max(c0.high[1], last_p)),
                     !.low = Some(Min(c0.low[1], last_p)),
                     !.last_ts = Some(ts_int),
                     !.pct_change = Some(PctMove(last_p, c0.open[1])),
                     !.last_update_ts = ts_int ]

TickerStateAfter(tk, k, last_p, vol24h, ts_int) ==
  LET base == [ tk EXCEPT !.ewma_vol24h = Some(k.ew_vol1),
                          !.ewma_abs_return = Some(k.ew_ret1),
                          !.last_price = Some(last_p),
                          !.last_vol24h = Some(vol24h) ]
  IN  IF IsAnomaly(k)
        THEN [ base EXCEPT !.last_anom_ts = Some(ts_int),
                           !.last_anom_dir = Some(AnomDirection(last_p, k)),
                           !.last_anom_strength = Some(k.score) ]
        ELSE base

\* the ANOM SignalEvent, emitted already evaluated
AnomEvent(pair, k, last_p, ts_int) ==
  [ ts |-> ts_int, pair |-> pair, signal_type |-> "ANOM",
    direction |-> AnomDirection(last_p, k), strength |-> k.score,
    flow_pct |-> 0, pct |-> k.day_ret, whale |-> FALSE,
    whale_side |-> "-", volume |-> 0, notional |-> 0,
    price |-> last_p, rating |-> "NONE", total_score |-> 0,
    flow_score |-> 0, price_score |-> 0, whale_score |-> 0,
    volume_score |-> 0, anomaly_score |-> 0, trend_score |-> 0,
    evaluated |-> TRUE, ret_5m |-> None, eval_horizon_sec |-> None,
    seq |-> 0 ]

\* ------------------------------------------------------------ self-evaluator
\* adjust without its two limits
AdjustUnclamped(w, factor_score, ret) ==
  IF factor_score <= 0 THEN w
  ELSE IF ret >= 2000 THEN Div(w * 102, 100)
  ELSE IF ret >= 500 /\ ret < 2000 THEN Div(w * 101, 100)
  ELSE IF ret <= -500 THEN Div(w * 98, 100)
  ELSE w

\* adjust without its test of the score
AdjustAny(w, factor_score, ret) ==
  LET w1 == IF ret >= 2000 THEN Div(w * 102, 100)
            ELSE IF ret >= 500 /\ ret < 2000 THEN Div(w * 101, 100)
            ELSE IF ret <= -500 THEN Div(w * 98, 100)
            ELSE w
  IN  Min(Max(w1, WeightMin), WeightMax)

\* the closure adjust: one weight against one score of the event
Adjust(w, factor_score, ret) ==
  IF factor_score <= 0 THEN w
  ELSE LET w1 == IF ret >= 2000 THEN Div(w * 102, 100)
                 ELSE IF ret >= 500 /\ ret < 2000 THEN Div(w * 101, 100)
                 ELSE IF ret <= -500 THEN Div(w * 98, 100)
                 ELSE w
       IN  Min(Max(w1, WeightMin), WeightMax)

AdjustAll(w, ev, ret) ==
  [ flow_w |-> Adjust(w.flow_w, ev.flow_score, ret),
    price_w |-> Adjust(w.price_w, ev.price_score, ret),
    whale_w |-> Adjust(w.whale_w, ev.whale_score, ret),
    volume_w |-> Adjust(w.volume_w, ev.volume_score, ret),
    anomaly_w |-> Adjust(w.anomaly_w, ev.anomaly_score, ret),
    trend_w |-> Adjust(w.trend_w, ev.trend_score, ret) ]

\* the price the evaluator measures the event against
CurrentPrice(cs, ev) == UnwrapOr(cs[ev.pair].close, ev.price)

\* the pass without its test of the evaluated flag
EvalOneAgain(ev, w, cs, now_ts) ==
  IF now_ts - ev.ts < EvalHorizon THEN [ev |-> ev, w |-> w]
  ELSE IF ev.rating = "NONE"
    THEN [ev |-> [ev EXCEPT !.evaluated = TRUE], w |-> w]
  ELSE LET ret == PctMove(CurrentPrice(cs, ev), ev.price)
       IN  [ ev |-> [ev EXCEPT !.ret_5m = Some(ret),
                               !.eval_horizon_sec = Some(now_ts - ev.ts),
                               !.evaluated = TRUE],
             w |-> AdjustAll(w, ev, ret) ]

\* one event of the pass: the event and the weights after it
EvalOne(ev, w, cs, now_ts) ==
  IF ev.evaluated \/ now_ts - ev.ts < EvalHorizon THEN [ev |-> ev, w |-> w]
  ELSE IF ev.rating = "NONE"
    THEN [ev |-> [ev EXCEPT !.evaluated = TRUE], w |-> w]
  ELSE LET ret == PctMove(CurrentPrice(cs, ev), ev.price)
       IN  [ ev |-> [ev EXCEPT !.ret_5m = Some(ret),
                               !.eval_horizon_sec = Some(now_ts - ev.ts),
                               !.evaluated = TRUE],
             w |-> AdjustAll(w, ev, ret) ]

\* the pass over the events sigs, oldest first, starting with the weights w:
\* the events and the weights after it.  The pass over a ring is the pass
\* over its first half followed by the pass over its second half.
RECURSIVE EvalPass(_, _, _, _)
EvalPass(sigs, w, cs, now_ts) ==
  IF sigs = <<>> THEN [sigs |-> <<>>, w |-> w]
  ELSE IF Len(sigs) = 1
    THEN Strict(EvalOne(sigs[1], w, cs, now_ts),
                LAMBDA r : [sigs |-> <<r.ev>>, w |-> r.w])
  ELSE Strict(sigs, LAMBDA s :
         Strict(EvalPass(SubSeq(s, 1, Len(s) \div 2), w, cs, now_ts),
           LAMBDA a :
             Strict(EvalPass(SubSeq(s, Len(s) \div 2 + 1, Len(s)),
                             a.w, cs, now_ts),
               LAMBDA b : [sigs |-> a.sigs \o b.sigs, w |-> b.w])))

\* --------------------------------------------------------------- maintenance
\* the sweep of the TradeStates without the reset of old anomaly flags
CleanTradesKeepAnom(ts, now_ts) ==
  [ p \in Pairs |->
      IF ts[p].present /\ ts[p].last_update_ts >= now_ts - 12 * 3600
        THEN ts[p] ELSE AbsentTradeState ]

CleanTrades(ts, now_ts) ==
  [ p \in Pairs |->
      IF ts[p].present /\ ts[p].last_update_ts >= now_ts - 12 * 3600
        THEN (IF ts[p].last_update_ts < now_ts - 5 * 3600
                THEN [ts[p] EXCEPT !.recent_anom = FALSE] ELSE ts[p])
        ELSE AbsentTradeState ]

CleanCandles(cs, now_ts) ==
  [ p \in Pairs |->
      IF UnwrapOr(cs[p].last_ts, 0) < now_ts - 24 * 3600
        THEN DefaultCandleState ELSE cs[p] ]

CleanBooks(obs, now_ts) ==
  [ p \in Pairs |->
      IF obs[p].present /\ obs[p].timestamp >= now_ts - 60
        THEN obs[p] ELSE NoOrderbook ]

\* ---------------------------------------------------------- orderbook worker
\* stable sort by price (sort_by): desc for bids, asc for asks; e stood
\* before every element of s
RECURSIVE InsertLevel(_, _, _)
InsertLevel(s, e, desc) ==
  IF s = <<>> THEN <<e>>
  ELSE IF (desc /\ e[1] >= Head(s)[1]) \/ (~desc /\ e[1] <= Head(s)[1])
    THEN <<e>> \o s
    ELSE <<Head(s)>> \o InsertLevel(Tail(s), e, desc)

RECURSIVE SortLevels(_, _)
SortLevels(s, desc) ==
  IF s = <<>> THEN <<>>
  ELSE InsertLevel(SortLevels(Tail(s), desc), Head(s), desc)

BookState(bids, asks, now_ts) ==
  [ present |-> TRUE, bids |-> SortLevels(bids, TRUE),
    asks |-> SortLevels(asks, FALSE), timestamp |-> now_ts ]

\* ===================================================================== state
VARIABLES
  trades,           \* Engine.trades: pair -> TradeState (or absent)
  candles,          \* Engine.candles: pair -> CandleState (absent = default)
  tickers,          \* Engine.tickers: pair -> TickerState (absent = default)
  orderbooks,       \* Engine.orderbooks: pair -> OrderbookState (or absent)
  signals,          \* Engine.signals: the ring, oldest first
  signalled_pairs,  \* Engine.signalled_pairs
  weights,          \* Engine.weights
  stars,            \* Engine.stars_history: [history, dirty]
  now,              \* the wall clock, seconds (Utc::now().timestamp())
  npushed,          \* history: number of push_signal calls so far
  prev,             \* history: pair -> what its most recent trade was
  count,            \* history: input steps taken since the start state
  last,             \* history: the last operation and what it saw
  locks,            \* who holds each lock of the engine's maps and mutexes
  tasks,            \* where each task of the program stands
  batch,            \* history: the handler calls that overlapped, and the
                    \* state they started from
  disk,             \* the files the program writes
  saver,            \* run_stars_history_saver: where it is, and whether it
                    \* holds the guard of the stars_history mutex
  feed,             \* run_kraken_worker: worker -> its place in the loop
  roles,            \* the roles main joins in one task: the HTTP server's
                    \* state and port, and a beat per role that flips with
                    \* each cycle of the role
  trader,           \* Engine.manual_trader: the paper trader's ledger
  twin,             \* a second engine with a clock of its own, fed the
                    \* trades the first is fed
  sweeper,          \* run_cleanup: where it is, the time it took and the
                    \* candles it has listed for a reset
  evaluator,        \* run_self_evaluator: where it is in its pass, and
                    \* (history) the weights as its last whole pass left them
  config,           \* the AppConfig behind its mutex, and whether
                    \* load_config has run
  requests          \* the paper-trader requests under way, each with the
                    \* clone of the ledger it is to save

vars == << trades, candles, tickers, orderbooks, signals, signalled_pairs,
           weights, stars, now, npushed, prev, count, last,
           locks, tasks, batch, disk, saver, feed, roles, trader, twin,
           sweeper, evaluator, config, requests >>

\* the engine as one value, so that handlers are functions on it
Engine ==
  [ trades |-> trades, candles |-> candles, tickers |-> tickers,
    orderbooks |-> orderbooks, signals |-> signals,
    signalled_pairs |-> signalled_pairs, weights |-> weights,
    stars |-> stars, npushed |-> npushed ]

EmptyEngine ==
  [ trades |-> [p \in Pairs |-> AbsentTradeState],
    candles |-> [p \in Pairs |-> DefaultCandleState],
    tickers |-> [p \in Pairs |-> DefaultTickerState],
    orderbooks |-> [p \in Pairs |-> NoOrderbook],
    signals |-> <<>>,
    signalled_pairs |-> {},
    weights |-> DefaultWeights,
    stars |-> [history |-> <<>>, dirty |-> FALSE],
    npushed |-> 0 ]

\* Engine::push_signal: mark the pair, append, drop the oldest overflow
PushSignal(e, ev) ==
  [ e EXCEPT !.signalled_pairs = @ \cup {ev.pair},
             !.signals = RingPush(@, [ev EXCEPT !.seq = e.npushed + 1]),
             !.npushed = @ + 1 ]

\* where sort_by(|a, b| b.ts.cmp(&a.ts)) puts ev in v, which it has sorted:
\* behind every event whose ts is not less (the sort is stable)
RECURSIVE InsertByTs(_, _)
InsertByTs(v, ev) ==
  IF v = <<>> THEN << ev >>
  ELSE IF Head(v).ts < ev.ts THEN << ev >> \o v
  ELSE << Head(v) >> \o InsertByTs(Tail(v), ev)

RECURSIVE SortByTsDesc(_)
SortByTsDesc(sigs) ==
  IF sigs = <<>> THEN <<>>
  ELSE InsertByTs(SortByTsDesc(SubSeq(sigs, 1, Len(sigs) - 1)),
                  sigs[Len(sigs)])

\* Engine::signals_snapshot
SignalsSnapshot(e) == SortByTsDesc(e.signals)

RECURSIVE PushAll(_, _)
PushAll(e, evs) ==
  IF evs = <<>> THEN e
  ELSE Strict(PushSignal(e, Head(evs)), LAMBDA e1 : PushAll(e1, Tail(evs)))

\* Engine::add_to_stars_history
AddStars(st, rows) ==
  IF rows = <<>> THEN st
  ELSE LET h == st.history \o rows
       IN  [ history |-> IF Len(h) > 1000 THEN Tail(h) ELSE h, dirty |-> TRUE ]

\* entry(pair).or_default()
OrDefault(t) == IF t.present THEN t ELSE DefaultTradeState

\* the locals of handle_trade for a trade on engine e
TradeLocals(e, pair, price, volume, side, ts) ==
  TradeCalc(pair, OrDefault(e.trades[pair]), e.candles[pair], e.tickers[pair],
            e.orderbooks[pair], e.weights, price, volume, side, ts)

\* Engine::handle_trade on engine e
HandleTrade(e, pair, price, volume, side, ts) ==
  LET t0 == OrDefault(e.trades[pair])
      x == TradeLocals(e, pair, price, volume, side, ts)
      e1 == [ e EXCEPT !.trades[pair] = TradeStateAfter(t0, x),
                       !.candles[pair] = x.c1,
                       !.stars = AddStars(@, StarsRows(t0, x)) ]
  IN  PushAll(e1, TradeEvents(t0, x))

\* Engine::handle_ticker on engine e
HandleTicker(e, pair, last_p, vol24h, open, ts_int) ==
  LET tk == e.tickers[pair]
      k == TickerCalc(tk, last_p, vol24h, open)
      t1 == [ OrDefault(e.trades[pair]) EXCEPT
                !.last_update_ts = ts_int,
                !.recent_anom = IF IsAnomaly(k) THEN TRUE ELSE @ ]
      e1 == [ e EXCEPT !.tickers[pair] = TickerStateAfter(tk, k, last_p, vol24h, ts_int),
                       !.trades[pair] = t1,
                       !.candles[pair] = TickerCandle(@, last_p, open, ts_int) ]
  IN  IF IsAnomaly(k) THEN PushSignal(e1, AnomEvent(pair, k, last_p, ts_int))
                      ELSE e1

\* one cycle of run_self_evaluator at time now_ts
SelfEvaluate(e, now_ts) ==
  LET r == EvalPass(e.signals, e.weights, e.candles, now_ts)
  IN  [ e EXCEPT !.signals = r.sigs, !.weights = r.w ]

\* one cycle of run_cleanup at time now_ts
Cleanup(e, now_ts) ==
  [ e EXCEPT !.trades = CleanTrades(@, now_ts),
             !.candles = CleanCandles(@, now_ts),
             !.orderbooks = CleanBooks(@, now_ts) ]

\* run_orderbook_worker storing one book message
StoreBook(e, pair, bids, asks, now_ts) ==
  IF bids # <<>> \/ asks # <<>>
    THEN [ e EXCEPT !.orderbooks[pair] = BookState(bids, asks, now_ts) ]
    ELSE e

\* Engine::snapshot: the pairs that get a row, one for every TradeState with
\* a whale, an early or alpha flag, or a mark in signalled_pairs
SnapshotPairs(e) ==
  { p \in Pairs :
      /\ e.trades[p].present
      /\ ~( /\ ~e.trades[p].last_whale
            /\ UnwrapOr(e.trades[p].last_early, "NONE") = "NONE"
            /\ UnwrapOr(e.trades[p].last_alpha, "NONE") = "NONE"
            /\ p \notin e.signalled_pairs ) }

\* ------------------------------------------------------------ the whole state
\* engine, clock and the per-pair trade history as one value
World == [ e |-> Engine, now |-> now, prev |-> prev ]

Now0 == 100000

\* history of a pair: whether it has traded, what its most recent trade was,
\* whether the sweep has evicted its TradeState since, the number and the
\* volume of the trades delivered for it, the volume of those of side b, and
\* the buy_volume + sell_volume its TradeState had when the sweep last
\* evicted it
NoTrade ==
  [ any |-> FALSE, is_whale |-> FALSE, pump_label |-> "NONE",
    pred_label |-> "NONE", early |-> "NONE", alpha |-> "NONE",
    evicted |-> FALSE,
    delivered |-> 0, volume |-> 0, bought |-> 0, seen |-> 0 ]

EmptyWorld ==
  [ e |-> EmptyEngine, now |-> Now0, prev |-> [p \in Pairs |-> NoTrade] ]

\* a trade's timestamp as the worker hands it over: half a second past the
\* clock (stale = FALSE), or 0.0, its fallback for a timestamp that does
\* not parse (stale = TRUE)
TradeTs(t, stale) == IF stale THEN 0 ELSE Secs(t) + 1

DoTrade(w, pair, price, volume, side, stale) ==
  LET ts == TradeTs(w.now, stale)
      x == TradeLocals(w.e, pair, price, volume, side, ts)
  IN  [ w EXCEPT !.e = HandleTrade(w.e, pair, price, volume, side, ts),
                 !.prev[pair] = [ any |-> TRUE, is_whale |-> x.is_whale,
                                  pump_label |-> x.pump_label,
                                  pred_label |-> x.pred_label,
                                  early |-> x.new_early,
                                  alpha |-> x.new_alpha,
                                  evicted |-> FALSE,
                                  delivered |-> @.delivered + 1,
                                  volume |-> @.volume + volume,
                                  bought |-> IF side = "b"
                                               THEN @.bought + volume
                                               ELSE @.bought,
                                  seen |-> @.seen ] ]

DoTicker(w, pair, last_p, vol24h, open) ==
  [ w EXCEPT !.e = HandleTicker(w.e, pair, last_p, vol24h, open, w.now) ]

DoEvaluate(w) == [ w EXCEPT !.e = SelfEvaluate(w.e, w.now) ]

DoSweep(w) ==
  LET e2 == Cleanup(w.e, w.now)
  IN  [ w EXCEPT !.e = e2,
                 !.prev = [ p \in Pairs |->
                              IF w.e.trades[p].present /\ ~e2.trades[p].present
                                THEN [ @[p] EXCEPT
                                         !.evicted = TRUE,
                                         !.seen = w.e.trades[p].buy_volume
                                                  + w.e.trades[p].sell_volume ]
                                ELSE @[p] ] ]

DoBook(w, pair, bids, asks) ==
  [ w EXCEPT !.e = StoreBook(w.e, pair, bids, asks, w.now) ]

DoTick(w, d) == [ w EXCEPT !.now = @ + d ]

\* the tasks of the program that call the engine: two trade workers, the
\* task that runs the anomaly scanner, and a task serving an HTTP request
Workers == {"ws1", "ws2"}
Scanner == "scanner"
Http == "http"
Tasks == Workers \cup {Scanner, Http}

\* DashMap locks the entry of a pair in a map; a handler holds it from
\* entry() until the guard goes out of scope
Maps == {"trades", "candles", "tickers"}
LockNames == Maps \X Pairs
Free == "free"
NoLocks == [ l \in LockNames |-> Free ]

Idle == [ pc |-> "idle" ]
IdleTasks == [ t \in Tasks |-> Idle ]

\* no file written yet: stars_history.json, manual_trades.json and
\* manual_trades_equity.json
NoFile ==
  [ stars_history |-> None, manual_trades |-> None, manual_equity |-> None ]

\* a trade worker at the top of its loop, about to connect
Connecting ==
  [ pc |-> "connecting", streak |-> 0, recovered |-> FALSE, sub |-> {} ]

\* the roles of the tokio::join! of main, the saver apart
JoinRoles == {"http", "scanner", "evaluator", "cleanup", "news"}

\* main has reached its join: run_http has not tried a port yet
Joined == [ http |-> "start", port |-> 0, beat |-> [ r \in JoinRoles |-> FALSE ] ]

\* --------------------------------------------------------- the paper trader
\* balances and sizes in milli, sl_pct and tp_pct in whole percent, fee_pct
\* in hundredths of a percent
VirtualInitialBalance == 10000
EquityCap == 365

\* ManualTraderState::new at clock now_ts. The HashMap trades is the set of
\* its values, each carrying its key in the field pair.
NewTraderAt(now_ts) ==
  [ initial_balance |-> VirtualInitialBalance * 1000,
    balance |-> VirtualInitialBalance * 1000,
    trades |-> {},
    equity_curve |-> << << now_ts, VirtualInitialBalance * 1000 >> >> ]

NewTrader == NewTraderAt(Now0)

ContainsKey(m, pair) == \E q \in m : q.pair = pair

\* HashMap::insert: the value under the key, replacing one that is there
Insert(m, v) == { q \in m : q.pair # v.pair } \cup {v}

\* HashMap::remove
Remove(m, pair) == { q \in m : q.pair # pair }

\* the position add_trade builds
NewPosition(pair, price, sl_pct, tp_pct, fee_pct, manual_amount, now_ts) ==
  [ pair |-> pair, entry_price |-> price,
    size |-> Div(manual_amount * 1000, price),
    open_ts |-> now_ts,
    stop_loss |-> price * 10 * (100 - sl_pct),
    take_profit |-> price * 10 * (100 + tp_pct),
    fee_pct |-> fee_pct, manual_amount |-> manual_amount ]

\* add_trade without its first test
AddTradeOver(tr, pair, price, sl_pct, tp_pct, fee_pct, manual_amount, now_ts) ==
  [ ok |-> TRUE,
    trader |-> [ tr EXCEPT !.trades =
                   Insert(@, NewPosition(pair, price, sl_pct, tp_pct, fee_pct,
                                         manual_amount, now_ts)) ] ]

\* ManualTraderState::add_trade
AddTrade(tr, pair, price, sl_pct, tp_pct, fee_pct, manual_amount, now_ts) ==
  IF ContainsKey(tr.trades, pair)
    THEN [ ok |-> FALSE, trader |-> tr ]
    ELSE [ ok |-> TRUE,
           trader |-> [ tr EXCEPT !.trades =
                          Insert(@, NewPosition(pair, price, sl_pct, tp_pct,
                                                fee_pct, manual_amount,
                                                now_ts)) ] ]

\* ManualTraderState::close_trade
CloseTrade(tr, pair, exit_price, now_ts) ==
  IF ~ContainsKey(tr.trades, pair)
    THEN [ ok |-> FALSE, trader |-> tr ]
    ELSE LET trade == CHOOSE q \in tr.trades : q.pair = pair
             pnl == (exit_price - trade.entry_price) * trade.size
             fee_amount == Div(Abs(pnl) * trade.fee_pct, 10000)
             balance == tr.balance + (pnl - fee_amount)
             curve == Append(tr.equity_curve, << now_ts, balance >>)
         IN  [ ok |-> TRUE,
               trader |-> [ tr EXCEPT
                              !.trades = Remove(@, pair),
                              !.balance = balance,
                              !.equity_curve =
                                IF Len(curve) > EquityCap
                                  THEN Tail(curve) ELSE curve ] ]

\* save and save_equity of a clone of the ledger
SaveTrader(dk, tr) ==
  [ dk EXCEPT !.manual_trades = Some(tr),
              !.manual_equity = Some(tr.equity_curve) ]

\* the close price the paper trader reads, 0 where there is none
CurrentClose(e, pair) == UnwrapOr(e.candles[pair].close, 0)

\* Engine::manual_add_trade: the result, the ledger and the files after
ManualAddTrade(e, tr, dk, pair, sl_pct, tp_pct, fee_pct, manual_amount, now_ts) ==
  LET current_price == CurrentClose(e, pair)
      r == AddTrade(tr, pair, current_price, sl_pct, tp_pct, fee_pct,
                    manual_amount, now_ts)
  IN  IF current_price <= 0
        THEN [ ok |-> FALSE, trader |-> tr, disk |-> dk ]
        ELSE [ ok |-> r.ok, trader |-> r.trader,
               disk |-> IF r.ok THEN SaveTrader(dk, r.trader) ELSE dk ]

\* Engine::manual_close_trade
ManualCloseTrade(e, tr, dk, pair, now_ts) ==
  LET current_price == CurrentClose(e, pair)
      r == CloseTrade(tr, pair, current_price, now_ts)
  IN  IF current_price <= 0
        THEN [ ok |-> FALSE, trader |-> tr, disk |-> dk ]
        ELSE [ ok |-> r.ok, trader |-> r.trader,
               disk |-> IF r.ok THEN SaveTrader(dk, r.trader) ELSE dk ]

\* run_cleanup in its sleep of 600 s
SweeperAsleep == [ pc |-> "sleep", to_reset |-> {}, now |-> 0 ]

\* AppConfig, by two of its fields (prices in whole units, thresholds in
\* milli)
DefaultConfig == [ whale_min_notional |-> 5000, early_buy_threshold |-> 3000 ]

\* the configurations a client posts
Configs ==
  [ whale_min_notional : {5000, 1000}, early_buy_threshold : {3000, 2000} ]

\* stands for a config.json whose text does not parse as an AppConfig
Garbage == [ whale_min_notional |-> 0, early_buy_threshold |-> 0 ]

\* serde_json::from_str(&content).unwrap_or_default()
ParseConfig(content) ==
  IF content \in Configs THEN content ELSE DefaultConfig

\* the paper-trader requests the server may have under way at once
Requests == {"r1", "r2"}
NoRequest == [ pc |-> "idle", clone |-> NewTrader ]

\* the saver in its sleep of 60 s, holding nothing
Asleep == [ pc |-> "sleep", holds |-> FALSE ]

SetWorld(w) ==
  /\ trades' = w.e.trades
  /\ candles' = w.e.candles
  /\ tickers' = w.e.tickers
  /\ orderbooks' = w.e.orderbooks
  /\ signals' = w.e.signals
  /\ signalled_pairs' = w.e.signalled_pairs
  /\ weights' = w.e.weights
  /\ stars' = w.e.stars
  /\ npushed' = w.e.npushed
  /\ now' = w.now
  /\ prev' = w.prev

\* a step of a handler taken as a whole, with no other handler under way
Set(w) ==
  /\ SetWorld(w)
  /\ UNCHANGED << locks, tasks, batch, disk, saver, feed, roles, trader, twin,
                  sweeper, evaluator, config, requests >>

\* the program is in state w, with config.json as file
StartOn(w, file) ==
  /\ trades = w.e.trades
  /\ candles = w.e.candles
  /\ tickers = w.e.tickers
  /\ orderbooks = w.e.orderbooks
  /\ signals = w.e.signals
  /\ signalled_pairs = w.e.signalled_pairs
  /\ weights = w.e.weights
  /\ stars = w.e.stars
  /\ npushed = w.e.npushed
  /\ now = w.now
  /\ prev = w.prev
  /\ count = 0
  /\ last = [op |-> "init"]
  /\ locks = NoLocks
  /\ tasks = IdleTasks
  /\ batch = [ base |-> EmptyWorld, done |-> <<>>, calls |-> 0 ]
  /\ disk = NoFile
  /\ saver = Asleep
  /\ feed = [ t \in Workers |-> Connecting ]
  /\ roles = Joined
  /\ trader = NewTrader
  /\ twin = [ e |-> w.e, now |-> w.now + TwinLag ]
  /\ sweeper = SweeperAsleep
  /\ evaluator = [ pc |-> "sleep", i |-> 0, now |-> 0, settled |-> w.e.weights ]
  /\ config = [ mem |-> DefaultConfig, file |-> file, loaded |-> FALSE ]
  /\ requests = [ r \in Requests |-> NoRequest ]

\* the program is in state w, and there is no config.json
StartIn(w) == StartOn(w, None)

\* the events pushed between engine e and engine e2, and their signal types
PushedEvents(e, e2) ==
  LET n == e2.npushed - e.npushed
      r == e2.signals
  IN  [ i \in 1..n |-> r[Len(r) - n + i] ]

Pushed(e, e2) ==
  LET evs == PushedEvents(e, e2)
  IN  [ i \in 1..Len(evs) |-> evs[i].signal_type ]

\* handle_ticker for pair other and handle_trade for pair side by side: the
\* scanner's events enter the ring after the first k of the trade's
DoTradeAmidTicker(w, pair, price, volume, side, other, last_p, k) ==
  Strict(DoTicker(w, other, last_p, 1, 100), LAMBDA w1 :
    Strict(DoTrade(w1, pair, price, volume, side, FALSE), LAMBDA w2 :
      LET evK == PushedEvents(w.e, w1.e)
          evT == PushedEvents(w1.e, w2.e)
          at == Min(k, Len(evT))
          evs == SubSeq(evT, 1, at) \o evK \o SubSeq(evT, at + 1, Len(evT))
          e0 == [ w2.e EXCEPT !.signals = w.e.signals, !.npushed = w.e.npushed ]
      IN  [ w |-> [ w2 EXCEPT !.e = PushAll(e0, evs) ],
            scanned |-> Len(evK), traded |-> Len(evT) ]))

\* ---------------------------------------------------------------- histories
\* one step of the running program on pair X/EUR, as a value
TradeOp(price, volume, side) ==
  [ op |-> "trade", price |-> price, volume |-> volume, side |-> side ]
TickerOp(last_p) == [ op |-> "ticker", last_p |-> last_p ]
TickOp(d) == [ op |-> "tick", d |-> d ]
EvalOp == [ op |-> "eval" ]
SweepOp == [ op |-> "sweep" ]

StepOf(w, o) ==
  CASE o.op = "trade" -> DoTrade(w, "X/EUR", o.price, o.volume, o.side, FALSE)
    [] o.op = "ticker" -> DoTicker(w, "X/EUR", o.last_p, 1, 100)
    [] o.op = "tick" -> DoTick(w, o.d)
    [] o.op = "eval" -> DoEvaluate(w)
    [] o.op = "sweep" -> DoSweep(w)

\* the state after the steps ops, taken in order from state w0
RECURSIVE Run(_, _)
Run(w0, ops) ==
  IF ops = <<>> THEN w0
  ELSE Strict(w0, LAMBDA w : Run(StepOf(w, Head(ops)), Tail(ops)))

\* the trades of a day on which the price rises after the signals
RisingTrades == << TradeOp(100, 1, "b"), TradeOp(103, 1, "b") >>

\* the trades of a day on which the price falls back after the signals of
\* two whale trades
FallingTrades ==
  << TradeOp(100, 1, "b"), TradeOp(103, 100, "b"), TradeOp(103, 1, "b"),
     TradeOp(103, 100, "b"), TradeOp(100, 1, "s") >>

\* the rest of such a day: the evaluator after the horizon, the sweep a day
\* later
DayEnd == << TickOp(301), EvalOp, TickOp(86401), SweepOp >>

\* the steps ops taken n times over, from state w0
RECURSIVE Repeat(_, _, _)
Repeat(w0, ops, n) ==
  IF n = 0 THEN w0
  ELSE IF n = 1 THEN Run(w0, ops)
  ELSE Strict(Repeat(w0, ops, n \div 2),
              LAMBDA w : Repeat(w, ops, n - n \div 2))

\* n days with the trades day, from state w0
Days(w0, day, n) == Repeat(w0, day \o DayEnd, n)

\* the engine after its trades of one more day, the evaluator still to come
RisingStart == Run(Days(EmptyWorld, RisingTrades, RisingRuns), RisingTrades)
FallingStart == Run(Days(EmptyWorld, FallingTrades, FallingRuns), FallingTrades)

\* two samples of the anomaly scanner, the price jumping up and back
ScanRound == << TickOp(10), TickerOp(130), TickOp(10), TickerOp(100) >>

\* the engine with its ring nearly full of ANOM events
RingStart == Repeat(EmptyWorld, ScanRound, RingRounds)

\* ------------------------------------------------------------------ actions
\* lim bounds the input steps of a run
Trade(lim, pair, price, volume, side, stale) ==
  /\ count < lim
  /\ \E w2 \in { DoTrade(World, pair, price, volume, side, stale) } :
        /\ Set(w2)
        /\ count' = count + 1
        /\ last' = [ op |-> "trade", pair |-> pair, price |-> price,
                     volume |-> volume, side |-> side,
                     ts |-> TradeTs(now, stale),
                     from_empty |-> Engine = EmptyEngine,
                     before |-> prev[pair],
                     events |-> PushedEvents(Engine, w2.e) ]

Ticker(lim, pair, last_p, vol24h, open) ==
  /\ count < lim
  /\ \E w2 \in { DoTicker(World, pair, last_p, vol24h, open) } :
        /\ Set(w2)
        /\ count' = count + 1
        /\ last' = [ op |-> "ticker", pair |-> pair, last_p |-> last_p,
                     vol24h |-> vol24h, open |-> open, ts |-> now,
                     tk0 |-> tickers[pair],
                     anom0 |-> OrDefault(trades[pair]).recent_anom,
                     events |-> PushedEvents(Engine, w2.e) ]

\* a trade worker in handle_trade for pair while the scanner is in
\* handle_ticker for another pair: the handlers work on different entries
\* of the maps, and their push_signal calls take the ring's lock one by one,
\* the scanner's after the first k of the trade's
TradeAmidTicker(lim, pair, price, volume, side, other, last_p, k) ==
  /\ count < lim
  /\ \E r \in { DoTradeAmidTicker(World, pair, price, volume, side,
                                   other, last_p, k) } :
        /\ other # pair
        /\ r.scanned > 0
        /\ k < r.traded
        /\ Set(r.w)
        /\ count' = count + 1
        /\ last' = [ op |-> "trade amid ticker", pair |-> pair,
                     k |-> k, events |-> PushedEvents(Engine, r.w.e) ]

Evaluate ==
  \E w2 \in { DoEvaluate(World) } :
    /\ Set(w2)
    /\ last' = [ op |-> "eval", sigs0 |-> signals, w0 |-> weights ]
    /\ UNCHANGED count

Sweep ==
  \E w2 \in { DoSweep(World) } :
    /\ Set(w2)
    /\ last' = [op |-> "cleanup"]
    /\ UNCHANGED count

Book(lim, pair, bids, asks) ==
  /\ count < lim
  /\ \E w2 \in { DoBook(World, pair, bids, asks) } :
        /\ Set(w2)
        /\ count' = count + 1
        /\ last' = [op |-> "book", pair |-> pair]

Tick(lim, d) ==
  /\ count < lim
  /\ Set(DoTick(World, d))
  /\ count' = count + 1
  /\ last' = [op |-> "tick"]

\* ------------------------------------------------- handlers, lock by lock
\* handle_ticker up to the end of its block on the pair's TradeState and
\* CandleState
TickerPresence(e, pair, last_p, open, ts_int) ==
  [ e EXCEPT !.trades[pair] = [ OrDefault(@) EXCEPT !.last_update_ts = ts_int ],
             !.candles[pair] = TickerCandle(@, last_p, open, ts_int) ]

\* handle_ticker from there on: the score, and for an anomaly the record on
\* the TickerState, the flag on the TradeState and the ANOM event
TickerVerdict(e, pair, last_p, vol24h, open, ts_int) ==
  LET tk == e.tickers[pair]
      k == TickerCalc(tk, last_p, vol24h, open)
      e1 == [ e EXCEPT !.tickers[pair] =
                         TickerStateAfter(tk, k, last_p, vol24h, ts_int) ]
  IN  IF IsAnomaly(k)
        THEN PushSignal([ e1 EXCEPT !.trades[pair] =
                                      [ OrDefault(@) EXCEPT !.recent_anom = TRUE ] ],
                        AnomEvent(pair, k, last_p, ts_int))
        ELSE e1

\* whether the sample of a ticker call is an anomaly
TickerIsAnomaly(e, o) ==
  IsAnomaly(TickerCalc(e.tickers[o.pair], o.last_p, o.vol24h, o.open))

\* the entry is taken whoever holds it
EnterAnyway(l) == TRUE

\* entry() and get() on a map wait while another guard holds the entry
CanEnter(l) == locks[l] = Free

Quiet == \A t \in Tasks : tasks[t].pc = "idle"

\* task t calls a handler: the call joins the calls under way, or starts a
\* new batch when there is none
Call(lim, t, pc, o) ==
  /\ count < lim
  /\ tasks[t].pc = "idle"
  /\ tasks' = [ tasks EXCEPT ![t] =
                 [ pc |-> pc,
                   op |-> o @@ [ by |-> t,
                                 seq |-> IF Quiet THEN 1 ELSE batch.calls + 1 ] ] ]
  /\ batch' = IF Quiet THEN [ base |-> World, done |-> <<>>, calls |-> 1 ]
                        ELSE [ batch EXCEPT !.calls = @ + 1 ]
  /\ count' = count + 1
  /\ UNCHANGED << trades, candles, tickers, orderbooks, signals,
                  signalled_pairs, weights, stars, now, npushed, prev, last,
                  locks, disk, saver, feed, roles, trader, twin,
                  sweeper, evaluator, config, requests >>

\* task t takes the entry of its pair in map m and goes on to pc
Enter(t, at, m, pc) ==
  /\ tasks[t].pc = at
  /\ CanEnter(<<m, tasks[t].op.pair>>)
  /\ locks' = [ locks EXCEPT ![<<m, tasks[t].op.pair>>] = t ]
  /\ tasks' = [ tasks EXCEPT ![t].pc = pc ]
  /\ UNCHANGED << trades, candles, tickers, orderbooks, signals,
                  signalled_pairs, weights, stars, now, npushed, prev, count,
                  last, batch, disk, saver, feed, roles, trader, twin,
                  sweeper, evaluator, config, requests >>

\* the guards of task t go out of scope and its call returns
Return(t) ==
  /\ locks' = [ l \in LockNames |-> IF locks[l] = t THEN Free ELSE locks[l] ]
  /\ tasks' = [ tasks EXCEPT ![t] = Idle ]
  /\ batch' = [ batch EXCEPT !.done = Append(@, tasks[t].op) ]

\* a trade worker calls handle_trade
TradeCall(lim, t, pair, price, volume, side) ==
  Call(lim, t, "trades.entry",
       [ op |-> "trade", pair |-> pair, price |-> price, volume |-> volume,
         side |-> side ])

\* handle_trade: trades.entry(pair).or_default()
TradeEntry(t) == t \in Workers /\ Enter(t, "trades.entry", "trades", "candles.entry")

\* handle_trade: candles.entry(pair).or_default()
TradeCandleEntry(t) ==
  t \in Workers /\ Enter(t, "candles.entry", "candles", "tickers.get")

\* handle_trade from tickers.get(pair) to its end: the entries it holds have
\* kept the TradeState and the CandleState as they were when it took them
TradeRest(t) ==
  /\ t \in Workers
  /\ tasks[t].pc = "tickers.get"
  /\ CanEnter(<<"tickers", tasks[t].op.pair>>)
  /\ \E w2 \in { DoTrade(World, tasks[t].op.pair, tasks[t].op.price,
                          tasks[t].op.volume, tasks[t].op.side, FALSE) } :
        /\ SetWorld(w2)
        /\ last' = [ op |-> "trade", pair |-> tasks[t].op.pair,
                     price |-> tasks[t].op.price,
                     volume |-> tasks[t].op.volume, side |-> tasks[t].op.side,
                     ts |-> TradeTs(now, FALSE),
                     from_empty |-> Engine = EmptyEngine,
                     before |-> prev[tasks[t].op.pair],
                     events |-> PushedEvents(Engine, w2.e) ]
  /\ Return(t)
  /\ UNCHANGED << count, disk, saver, feed, roles, trader, twin,
                  sweeper, evaluator, config, requests >>

\* the scanner calls handle_ticker
TickerCall(lim, pair, last_p, vol24h, open) ==
  Call(lim, Scanner, "tickers.entry",
       [ op |-> "ticker", pair |-> pair, last_p |-> last_p,
         vol24h |-> vol24h, open |-> open ])

\* handle_ticker: tickers.entry(pair).or_default()
TickerEntry == Enter(Scanner, "tickers.entry", "tickers", "trades.entry")

\* handle_ticker: trades.entry(pair).or_default() in the candle block
TickerTradesEntry == Enter(Scanner, "trades.entry", "trades", "candles.entry")

\* handle_ticker: candles.entry(pair).or_default(), the block to its end, and
\* for a sample that is no anomaly the rest of the handler
TickerCandleEntry ==
  LET o == tasks[Scanner].op
  IN  /\ tasks[Scanner].pc = "candles.entry"
      /\ CanEnter(<<"candles", o.pair>>)
      /\ \E e1 \in { TickerPresence(Engine, o.pair, o.last_p, o.open, now) } :
           IF TickerIsAnomaly(Engine, o)
             THEN /\ SetWorld([ World EXCEPT !.e = e1 ])
                  /\ locks' = [ locks EXCEPT ![<<"trades", o.pair>>] = Free ]
                  /\ tasks' = [ tasks EXCEPT ![Scanner].pc = "anomaly.entry" ]
                  /\ UNCHANGED << last, batch >>
             ELSE /\ SetWorld([ World EXCEPT !.e =
                       TickerVerdict(e1, o.pair, o.last_p, o.vol24h, o.open, now) ])
                  /\ last' = [ op |-> "ticker", pair |-> o.pair, events |-> <<>> ]
                  /\ Return(Scanner)
      /\ UNCHANGED << count, disk, saver, feed, roles, trader, twin,
                  sweeper, evaluator, config, requests >>

\* handle_ticker for an anomaly: trades.entry(pair).or_default() and the rest
TickerAnomalyEntry ==
  LET o == tasks[Scanner].op
  IN  /\ tasks[Scanner].pc = "anomaly.entry"
      /\ CanEnter(<<"trades", o.pair>>)
      /\ \E e2 \in { TickerVerdict(Engine, o.pair, o.last_p, o.vol24h, o.open, now) } :
           /\ SetWorld([ World EXCEPT !.e = e2 ])
           /\ last' = [ op |-> "ticker", pair |-> o.pair,
                        events |-> PushedEvents(Engine, e2) ]
      /\ Return(Scanner)
      /\ UNCHANGED << count, disk, saver, feed, roles, trader, twin,
                  sweeper, evaluator, config, requests >>

\* ------------------------------------------------------------ specification
\* the engine from its construction, one pair's feed in full
Init == StartIn(EmptyWorld)

Next ==
  \/ \E price \in {100, 103}, v \in {1, 100}, sd \in {"b", "s"} :
       Trade(MaxSteps, "X/EUR", price, v, sd, FALSE)
  \/ \E v \in {1, 100} : Trade(MaxSteps, "X/EUR", 100, v, "b", TRUE)
  \/ \E q \in { <<100, 1>>, <<110, 1>>, <<100, 3>> } :
       Ticker(MaxSteps, "X/EUR", q[1], q[2], 100)
  \/ Evaluate
  \/ Sweep
  \/ Book(MaxSteps, "X/EUR", << <<98, 1>>, <<99, 8>> >>, << <<101, 1>> >>)
  \/ \E d \in {6, 61, 301, 43201} : Tick(MaxSteps, d)

Spec == Init /\ [][Next]_vars

\* the feeds of two pairs with no maintenance in between
InitFeed == StartIn(EmptyWorld)

NextFeed ==
  \/ \E p \in Pairs, v \in {1, 100}, sd \in {"b", "s"} :
       Trade(MaxFeedSteps, p, 100, v, sd, FALSE)
  \/ \E p \in Pairs, lp \in {100, 190}, v \in {1, 3} :
       Ticker(MaxFeedSteps, p, lp, v, 100)
  \/ Tick(MaxFeedSteps, 43201)

SpecFeed == InitFeed /\ [][NextFeed]_vars

\* two trade workers and the scanner on one pair, their handlers side by
\* side and lock by lock
InitLocks == StartIn(EmptyWorld)

NextLocks ==
  \/ \E t \in Workers, v \in {1, 100} :
       TradeCall(MaxLockSteps, t, "X/EUR", 100, v, "b")
  \/ \E t \in Workers : TradeEntry(t)
  \/ \E t \in Workers : TradeCandleEntry(t)
  \/ \E t \in Workers : TradeRest(t)
  \/ \E lp \in {100, 130} : TickerCall(MaxLockSteps, "X/EUR", lp, 1, 100)
  \/ TickerEntry
  \/ TickerTradesEntry
  \/ TickerCandleEntry
  \/ TickerAnomalyEntry

SpecLocks == InitLocks /\ [][NextLocks]_vars

\* ------------------------------------------------- the stars history
\* the process runs until a panic of its main task ends it
Up == saver.pc # "panicked"

\* stars_history.lock() returns when no guard of the mutex is alive;
\* add_to_stars_history and the HTTP handler drop theirs within their step
StarsFree == ~saver.holds

\* handle_trade of worker t up to its add_to_stars_history call: with no
\* row to add the handler runs to its end; with one, the WH_PRED event is in
\* the ring, and the rest waits for the mutex with the entries of the pair
\* in trades and candles held
TradeToStars(lim, t, pair, price, volume, side) ==
  /\ count < lim
  /\ Up
  /\ tasks[t].pc = "idle"
  /\ CanEnter(<<"trades", pair>>)
  /\ CanEnter(<<"candles", pair>>)
  /\ \E w2 \in { DoTrade(World, pair, price, volume, side, FALSE) },
        t0 \in { OrDefault(trades[pair]) },
        x \in { TradeLocals(Engine, pair, price, volume, side,
                            TradeTs(now, FALSE)) } :
        IF StarsRows(t0, x) = <<>>
          THEN /\ Set(w2)
               /\ last' = [ op |-> "trade", pair |-> pair,
                            events |-> PushedEvents(Engine, w2.e) ]
          ELSE /\ SetWorld([ World EXCEPT
                               !.e = PushSignal(Engine, Head(TradeEvents(t0, x))) ])
               /\ tasks' = [ tasks EXCEPT ![t] =
                              [ pc |-> "stars.lock",
                                op |-> [ pair |-> pair,
                                         t1 |-> w2.e.trades[pair],
                                         c1 |-> w2.e.candles[pair],
                                         rows |-> StarsRows(t0, x),
                                         rest |-> Tail(TradeEvents(t0, x)),
                                         told |-> w2.prev[pair] ] ] ]
               /\ locks' = [ locks EXCEPT ![<<"trades", pair>>] = t,
                                          ![<<"candles", pair>>] = t ]
               /\ last' = [ op |-> "trade to stars", pair |-> pair, by |-> t ]
               /\ UNCHANGED << batch, disk, saver, feed, roles, trader, twin,
                  sweeper, evaluator, config, requests >>
  /\ count' = count + 1

\* add_to_stars_history of worker t and the rest of its handle_trade
StarsAppend(t) ==
  /\ Up
  /\ tasks[t].pc = "stars.lock"
  /\ StarsFree
  /\ \E o \in { tasks[t].op } :
       \E e2 \in { PushAll([ Engine EXCEPT !.trades[o.pair] = o.t1,
                                            !.candles[o.pair] = o.c1,
                                            !.stars = AddStars(@, o.rows) ],
                            o.rest) } :
          /\ SetWorld([ World EXCEPT !.e = e2, !.prev[o.pair] = o.told ])
          /\ last' = [ op |-> "stars row", pair |-> o.pair, by |-> t ]
  /\ locks' = [ l \in LockNames |-> IF locks[l] = t THEN Free ELSE locks[l] ]
  /\ tasks' = [ tasks EXCEPT ![t] = Idle ]
  /\ UNCHANGED << count, batch, disk, saver, feed, roles, trader, twin,
                  sweeper, evaluator, config, requests >>

\* a request GET /api/stars_history reaches its handler
HttpStarsCall ==
  /\ Up
  /\ tasks[Http].pc = "idle"
  /\ tasks' = [ tasks EXCEPT ![Http] = [ pc |-> "stars.lock" ] ]
  /\ UNCHANGED << trades, candles, tickers, orderbooks, signals,
                  signalled_pairs, weights, stars, now, npushed, prev, count,
                  last, locks, batch, disk, saver, feed, roles, trader, twin,
                  sweeper, evaluator, config, requests >>

\* the handler takes the mutex, copies the rows and replies
HttpStarsReply ==
  /\ Up
  /\ tasks[Http].pc = "stars.lock"
  /\ StarsFree
  /\ tasks' = [ tasks EXCEPT ![Http] = Idle ]
  /\ last' = [ op |-> "GET /api/stars_history", rows |-> Len(stars.history) ]
  /\ UNCHANGED << trades, candles, tickers, orderbooks, signals,
                  signalled_pairs, weights, stars, now, npushed, prev, count,
                  locks, batch, disk, saver, feed, roles, trader, twin,
                  sweeper, evaluator, config, requests >>

SaverTo(pc, holds) ==
  /\ saver' = [ pc |-> pc, holds |-> holds ]
  /\ UNCHANGED << trades, candles, tickers, orderbooks, signals,
                  signalled_pairs, weights, stars, now, npushed, prev, count,
                  last, locks, tasks, batch, disk, feed, roles, trader, twin,
                  sweeper, evaluator, config, requests >>

\* run_stars_history_saver: the sleep is over and the saver locks the mutex
SaverWake == saver.pc = "sleep" /\ StarsFree /\ SaverTo("locked", TRUE)

\* nothing to save: the guard goes out of scope, the saver sleeps again
SaverSkip == saver.pc = "locked" /\ ~stars.dirty /\ SaverTo("sleep", FALSE)

\* the history is dirty: with its guard alive the saver calls
\* save_stars_history, which locks the same mutex. std::sync::Mutex leaves a
\* second lock by the holder unspecified: the call never returns, it blocks
\* for ever or panics, and a panic of the saver is a panic of main
SaverSave ==
  /\ saver.pc = "locked"
  /\ stars.dirty
  /\ \/ SaverTo("save.lock", TRUE)
     \/ SaverTo("panicked", FALSE)

\* an engine whose scanner has seen the price of both pairs jump
ScannedStart ==
  Strict(DoTicker(DoTicker(EmptyWorld, "X/EUR", 100, 1, 100),
                  "X/EUR", 190, 1, 100),
         LAMBDA w : DoTicker(DoTicker(w, "Y/EUR", 100, 1, 100),
                             "Y/EUR", 190, 1, 100))

InitStars == \E w \in { ScannedStart } : StartIn(w)

NextStars ==
  \/ \E t \in Workers, p \in Pairs, v \in {1, 100} :
       TradeToStars(MaxStarSteps, t, p, 100, v, "b")
  \/ \E t \in Workers : StarsAppend(t)
  \/ HttpStarsCall
  \/ HttpStarsReply
  \/ SaverWake
  \/ SaverSkip
  \/ SaverSave

\* the runtime runs the saver whenever it can go on, and a lock() that finds
\* the mutex free again and again gets it
SpecStars ==
  /\ InitStars
  /\ [][NextStars]_vars
  /\ WF_vars(SaverWake \/ SaverSkip \/ SaverSave)
  /\ \A t \in Workers : SF_vars(StarsAppend(t))
  /\ SF_vars(HttpStarsReply)

\* ------------------------------------------------- the roles of main
\* Engine::update_sentiment on the TradeState of the pair, if there is one
\* (the news_sentiment map it also fills is read by /api/news only)
UpdateSentiment(e, pair, sentiment, now_ts) ==
  IF ~e.trades[pair].present THEN e
  ELSE [ e EXCEPT !.trades[pair] =
           [ @ EXCEPT !.news_sentiment = sentiment,
                      !.last_update_ts = now_ts,
                      !.last_score = IF sentiment > 700 THEN Div(@ * 11, 10)
                                     ELSE IF sentiment < 300 THEN Div(@ * 95, 100)
                                     ELSE @ ] ]

\* the six roles of the join are polled by the one task of main, one after
\* the other: a role gets its turn when no other is inside a call that does
\* not return, and the saver holds no await between its lock and its save
MainRuns == Up /\ saver.pc = "sleep"

\* a role r of the join takes a turn that leaves the world as w
RoleTurn(r, w) ==
  /\ MainRuns
  /\ SetWorld(w)
  /\ roles' = [ roles EXCEPT !.beat[r] = ~@ ]
  /\ last' = [ op |-> "cycle", role |-> r ]
  /\ UNCHANGED << locks, tasks, batch, disk, saver, feed, trader, twin,
                  sweeper, evaluator, config, requests >>

\* run_http tries the ports from FirstPort on, the ports of free being
\* free: it serves on the first free one, and returns when LastPort is
\* passed
HttpBind(free) ==
  /\ MainRuns
  /\ roles.http = "start"
  /\ roles' = IF \E p \in FirstPort..LastPort : p \in free
                THEN [ roles EXCEPT
                         !.http = "serving",
                         !.port = CHOOSE p \in FirstPort..LastPort :
                                    /\ p \in free
                                    /\ \A q \in FirstPort..(p - 1) : q \notin free ]
                ELSE [ roles EXCEPT !.http = "stopped", !.port = LastPort + 1 ]
  /\ last' = [ op |-> "bind" ]
  /\ UNCHANGED << trades, candles, tickers, orderbooks, signals,
                  signalled_pairs, weights, stars, now, npushed, prev, count,
                  locks, tasks, batch, disk, saver, feed, trader, twin,
                  sweeper, evaluator, config, requests >>

\* the server accepts a connection
HttpAccept ==
  roles.http = "serving" /\ RoleTurn("http", World) /\ UNCHANGED count

\* a poll of the scanner with a sample for Y/EUR
ScannerCycle ==
  /\ \E w2 \in { DoTicker(World, "Y/EUR", 100, 1, 100) } : RoleTurn("scanner", w2)
  /\ UNCHANGED count

EvaluatorCycle ==
  /\ \E w2 \in { DoEvaluate(World) } : RoleTurn("evaluator", w2)
  /\ UNCHANGED count

CleanupCycle ==
  /\ \E w2 \in { DoSweep(World) } : RoleTurn("cleanup", w2)
  /\ UNCHANGED count

\* a scan of the news with a title of the given sentiment for X/EUR
NewsTurn(sentiment) ==
  \E w2 \in { [ World EXCEPT !.e = UpdateSentiment(@, "X/EUR", sentiment, now) ] } :
     RoleTurn("news", w2)

\* a title of no weight either way
NewsCycle == NewsTurn(500) /\ UNCHANGED count

\* a title that moves the score of the pair
NewsBoost(lim, sentiment) ==
  /\ count < lim
  /\ NewsTurn(sentiment)
  /\ count' = count + 1

\* an engine with a row in its stars history still to be saved
StarredStart ==
  Strict(DoTicker(DoTicker(EmptyWorld, "X/EUR", 100, 1, 100),
                  "X/EUR", 190, 1, 100),
         LAMBDA w : DoTrade(w, "X/EUR", 100, 1, "b", FALSE))

InitRoles == \E w \in { EmptyWorld, StarredStart } : StartIn(w)

NextRoles ==
  \/ \E free \in { {}, {FirstPort}, {LastPort}, {LastPort + 1} } : HttpBind(free)
  \/ HttpAccept
  \/ ScannerCycle
  \/ EvaluatorCycle
  \/ CleanupCycle
  \/ NewsCycle
  \/ \E s \in {200, 800} : NewsBoost(MaxNewsSteps, s)
  \/ SaverWake
  \/ SaverSkip
  \/ SaverSave

\* the runtime polls the task of main again and again, and the join gives
\* every role of it a turn
SpecRoles ==
  /\ InitRoles
  /\ [][NextRoles]_vars
  /\ WF_vars(HttpAccept)
  /\ WF_vars(ScannerCycle)
  /\ WF_vars(EvaluatorCycle)
  /\ WF_vars(CleanupCycle)
  /\ WF_vars(NewsCycle)
  /\ WF_vars(SaverWake \/ SaverSkip \/ SaverSave)

\* ------------------------------------------------- paper trader requests
\* POST /api/manual_trade
PaperOpen(lim, pair, sl_pct, tp_pct, fee_pct, manual_amount) ==
  /\ count < lim
  /\ \E r \in { ManualAddTrade(Engine, trader, disk, pair, sl_pct, tp_pct,
                                fee_pct, manual_amount, now) } :
        /\ trader' = r.trader
        /\ disk' = r.disk
        /\ count' = count + 1
        /\ last' = [ op |-> "open", pair |-> pair, ok |-> r.ok,
                     price |-> CurrentClose(Engine, pair),
                     trader0 |-> trader, disk0 |-> disk ]
        /\ UNCHANGED << trades, candles, tickers, orderbooks, signals,
                        signalled_pairs, weights, stars, now, npushed, prev,
                        locks, tasks, batch, saver, feed, roles, twin,
                  sweeper, evaluator, config, requests >>

\* DELETE /api/manual_trade
PaperClose(lim, pair) ==
  /\ count < lim
  /\ \E r \in { ManualCloseTrade(Engine, trader, disk, pair, now) } :
        /\ trader' = r.trader
        /\ disk' = r.disk
        /\ count' = count + 1
        /\ last' = [ op |-> "close", pair |-> pair, ok |-> r.ok,
                     price |-> CurrentClose(Engine, pair),
                     trader0 |-> trader, disk0 |-> disk ]
        /\ UNCHANGED << trades, candles, tickers, orderbooks, signals,
                        signalled_pairs, weights, stars, now, npushed, prev,
                        locks, tasks, batch, saver, feed, roles, twin,
                  sweeper, evaluator, config, requests >>

InitPaper == StartIn(EmptyWorld)

NextPaper ==
  \/ \E pair \in Pairs, price \in {100, 103} :
       Trade(MaxPaperSteps, pair, price, 1, "b", FALSE)
  \/ \E pair \in Pairs : Ticker(MaxPaperSteps, pair, 0, 1, 100)
  \/ Tick(MaxPaperSteps, 6)
  \/ \E pair \in Pairs, amount \in {100, 250} :
       PaperOpen(MaxPaperSteps, pair, 2, 5, 26, amount)
  \/ \E pair \in Pairs : PaperClose(MaxPaperSteps, pair)

SpecPaper == InitPaper /\ [][NextPaper]_vars

\* ------------------------------------------------------------ two engines
\* a worker hands a trade with timestamp ts to the engine of world w
FeedTradeByClock(w, pair, price, volume, side, ts) ==
  [ w EXCEPT !.e = HandleTrade(w.e, pair, price, volume, side,
                               TradeTs(w.now, FALSE)) ]

FeedTrade(w, pair, price, volume, side, ts) ==
  [ w EXCEPT !.e = HandleTrade(w.e, pair, price, volume, side, ts) ]

\* both engines are handed the same trade
TwinTrade(lim, pair, price, volume, side, ts) ==
  /\ count < lim
  /\ \E w2 \in { FeedTrade(World, pair, price, volume, side, ts) },
        t2 \in { FeedTrade(twin, pair, price, volume, side, ts) } :
        /\ SetWorld(w2)
        /\ twin' = t2
        /\ count' = count + 1
        /\ last' = [ op |-> "twin", pair |-> pair, ts |-> ts,
                     events |-> PushedEvents(Engine, w2.e),
                     twin_events |-> PushedEvents(twin.e, t2.e) ]
        /\ UNCHANGED << locks, tasks, batch, disk, saver, feed, roles,
                        trader,
                  sweeper, evaluator, config, requests >>

\* time passes for the second engine alone
TwinTick(lim, d) ==
  /\ count < lim
  /\ twin' = [ twin EXCEPT !.now = @ + d ]
  /\ count' = count + 1
  /\ last' = [ op |-> "tick" ]
  /\ UNCHANGED << trades, candles, tickers, orderbooks, signals,
                  signalled_pairs, weights, stars, now, npushed, prev,
                  locks, tasks, batch, disk, saver, feed, roles, trader,
                  sweeper, evaluator, config, requests >>

\* the engines start alike: empty, or with a ticker sample and a book
BookedStart ==
  DoBook(DoTicker(EmptyWorld, "X/EUR", 100, 1, 100), "X/EUR",
         << <<98, 1>>, <<99, 8>> >>, << <<101, 1>> >>)

InitTwin == \E w \in { EmptyWorld, BookedStart } : StartIn(w)

TwinTimes == { 0, TradeTs(Now0, FALSE), TradeTs(Now0 + 70, FALSE) }

NextTwin ==
  \/ \E q \in { <<100, 1>>, <<103, 100>> }, sd \in {"b", "s"},
        ts \in TwinTimes :
       TwinTrade(MaxTwinSteps, "X/EUR", q[1], q[2], sd, ts)
  \/ Tick(MaxTwinSteps, 6)
  \/ TwinTick(MaxTwinSteps, 6)

SpecTwin == InitTwin /\ [][NextTwin]_vars

\* ----------------------------------------------------------- normalization
\* the asset codes of the feed: Kraken's older codes and the usual names
Symbols ==
  { "XBT", "XXBT", "XETH", "XXRP", "XDG", "BTC", "ETH", "XRP", "DOGE",
    "EUR", "USD" }

\* normalize_asset with every code kept apart
NormalizeAssetApart(sym) ==
  CASE sym = "XBT" -> "BTC"
    [] sym = "XETH" -> "ETH"
    [] sym = "XXRP" -> "XRP"
    [] sym = "XDG" -> "DOGE"
    [] OTHER -> sym

NormalizeAsset(sym) ==
  CASE sym \in {"XBT", "XXBT"} -> "BTC"
    [] sym = "XETH" -> "ETH"
    [] sym = "XXRP" -> "XRP"
    [] sym = "XDG" -> "DOGE"
    [] OTHER -> sym

\* a wsname is the tuple of the parts that split('/') gives, and format!
\* of base and quote the tuple of the two
NormalizePair(wsname) ==
  IF Len(wsname) # 2 THEN wsname
  ELSE << NormalizeAsset(wsname[1]), NormalizeAsset(wsname[2]) >>

\* wsnames of one, two and three parts
WsNames ==
  { << a >> : a \in Symbols } \cup (Symbols \X Symbols)
    \cup { << a, "EUR", "USD" >> : a \in Symbols }

\* a worker or the scanner normalizes the name of a pair
Normalize(wsname) ==
  /\ last' = [ op |-> "normalize", wsname |-> wsname,
               norm |-> NormalizePair(wsname) ]
  /\ UNCHANGED << trades, candles, tickers, orderbooks, signals,
                  signalled_pairs, weights, stars, now, npushed, prev, count,
                  locks, tasks, batch, disk, saver, feed, roles, trader,
                  twin,
                  sweeper, evaluator, config, requests >>

InitNorm == StartIn(EmptyWorld)

NextNorm == \E wsname \in WsNames : Normalize(wsname)

SpecNorm == InitNorm /\ [][NextNorm]_vars

\* ------------------------------------------------------- flow of a pair
\* buys and sells of one pair in sizes that bring the buy fraction to the
\* thresholds of both windows, and a minute passing between them
NextFlow ==
  \/ \E v \in {1, 3, 7}, sd \in {"b", "s"} :
       Trade(MaxFlowSteps, "X/EUR", 100, v, sd, FALSE)
  \/ Tick(MaxFlowSteps, 61)

SpecFlow == Init /\ [][NextFlow]_vars

\* ------------------------------------------------ trades against the book
\* handle_trade, the engine it found kept in last
TradeOnBook(lim, pair, price, volume, side, stale) ==
  /\ count < lim
  /\ \E w2 \in { DoTrade(World, pair, price, volume, side, stale) } :
        /\ Set(w2)
        /\ count' = count + 1
        /\ last' = [ op |-> "trade", pair |-> pair, price |-> price,
                     volume |-> volume, side |-> side,
                     ts |-> TradeTs(now, stale), e0 |-> Engine ]

\* books heavy on the bid side and on the ask side
NextBook ==
  \/ \E v \in {1, 60, 160}, sd \in {"b", "s"} :
       TradeOnBook(MaxBookSteps, "X/EUR", 100, v, sd, FALSE)
  \/ \E sd \in {"b", "s"} :
       TradeOnBook(MaxBookSteps, "X/EUR", 100, 60, sd, TRUE)
  \/ Book(MaxBookSteps, "X/EUR", << <<98, 1>>, <<99, 8>> >>, << <<101, 1>> >>)
  \/ Book(MaxBookSteps, "X/EUR", << <<99, 1>> >>, << <<101, 8>>, <<102, 1>> >>)
  \/ \E d \in {5, 6} : Tick(MaxBookSteps, d)

SpecBook == Init /\ [][NextBook]_vars

\* ------------------------------------------------- the sweep, seen whole
\* one cycle of run_cleanup with no handler under way, the engine it found
\* kept in last
SweepSeen ==
  \E w2 \in { DoSweep(World) } :
    /\ Set(w2)
    /\ last' = [ op |-> "cleanup", e0 |-> Engine ]
    /\ UNCHANGED count

\* trades, ticker samples with a jump and books on two pairs, with a
\* minute, five hours and twelve hours passing
NextSweep ==
  \/ \E p \in Pairs, stale \in BOOLEAN :
       Trade(MaxSweepSteps, p, 100, 1, "b", stale)
  \/ \E lp \in {100, 190} : Ticker(MaxSweepSteps, "X/EUR", lp, 1, 100)
  \/ Book(MaxSweepSteps, "X/EUR", << <<99, 8>> >>, << <<101, 1>> >>)
  \/ \E d \in {61, 18001, 43201} : Tick(MaxSweepSteps, d)
  \/ SweepSeen

SpecSweep == Init /\ [][NextSweep]_vars

\* ------------------------------------------------------------ configuration
\* load_config, at the start of main: the file is read and parsed, and a
\* missing file is written with the defaults
LoadConfig(c) ==
  IF IsSome(c.file)
    THEN [ c EXCEPT !.mem = ParseConfig(c.file[1]), !.loaded = TRUE ]
    ELSE [ c EXCEPT !.mem = DefaultConfig, !.file = Some(DefaultConfig),
                    !.loaded = TRUE ]

\* save_config, run to its end: config.json holds cfg
SaveConfig(c, cfg) == [ c EXCEPT !.file = Some(cfg) ]

\* POST /api/config: the configuration behind the mutex is replaced;
\* save_config(&new_cfg) is an async fn whose future is dropped by `let _ =`
\* without being polled, so its body never runs
ApiConfigPost(c, new_cfg) == [ c EXCEPT !.mem = new_cfg ]

\* POST /api/config/reset: the same with AppConfig::default()
ApiConfigReset(c) == [ c EXCEPT !.mem = DefaultConfig ]

KeepEngine ==
  UNCHANGED << trades, candles, tickers, orderbooks, signals,
               signalled_pairs, weights, stars, now, npushed, prev,
               locks, tasks, batch, disk, saver, feed, roles, trader, twin,
               sweeper, evaluator, requests >>

ConfigLoad ==
  /\ ~config.loaded
  /\ config' = LoadConfig(config)
  /\ last' = [ op |-> "load_config", status |-> "" ]
  /\ UNCHANGED count
  /\ KeepEngine

ConfigGet(lim) ==
  /\ config.loaded
  /\ count < lim
  /\ count' = count + 1
  /\ last' = [ op |-> "config_get", status |-> "", body |-> config.mem ]
  /\ UNCHANGED config
  /\ KeepEngine

ConfigPost(lim, new_cfg) ==
  /\ config.loaded
  /\ count < lim
  /\ config' = ApiConfigPost(config, new_cfg)
  /\ count' = count + 1
  /\ last' = [ op |-> "config_post", status |-> "saved" ]
  /\ KeepEngine

ConfigReset(lim) ==
  /\ config.loaded
  /\ count < lim
  /\ config' = ApiConfigReset(config)
  /\ count' = count + 1
  /\ last' = [ op |-> "config_reset", status |-> "reset" ]
  /\ KeepEngine

\* what config.json may hold when the program starts
InitConfig ==
  \E file \in {None, Some(Garbage)} \cup { Some(c) : c \in Configs } :
     StartOn(EmptyWorld, file)

NextConfig ==
  \/ ConfigLoad
  \/ ConfigGet(MaxConfigSteps)
  \/ \E new_cfg \in Configs : ConfigPost(MaxConfigSteps, new_cfg)
  \/ ConfigReset(MaxConfigSteps)

SpecConfig == InitConfig /\ [][NextConfig]_vars

\* ------------------------------------------------- the sweep, step by step
\* engine.trades.retain(|_, v| v.last_update_ts >= cutoff_trades)
RetainTrades(ts, now_ts) ==
  [ p \in Pairs |->
      IF ts[p].present /\ ts[p].last_update_ts >= now_ts - 12 * 3600
        THEN ts[p] ELSE AbsentTradeState ]

\* the keys the scan of candles pushes to to_reset. A candle in its default
\* state is left out: the model does not tell it from a pair without a
\* candle, and its reset changes nothing
ToReset(cs, now_ts) ==
  { p \in Pairs :
      IsSome(cs[p].last_ts) /\ UnwrapOr(cs[p].last_ts, 0) < now_ts - 24 * 3600 }

\* engine.candles.insert(k, CandleState::default())
ResetCandle(cs, k) == [ cs EXCEPT ![k] = DefaultCandleState ]

\* the loop over trades.iter_mut() that ends the sweep
ResetAnom(ts, now_ts) ==
  [ p \in Pairs |->
      IF ts[p].present /\ ts[p].last_update_ts < now_ts - 5 * 3600
        THEN [ts[p] EXCEPT !.recent_anom = FALSE] ELSE ts[p] ]

\* the world after the retain of the sweep that woke at now_ts
DoRetain(w, now_ts) ==
  LET e2 == [ w.e EXCEPT !.trades = RetainTrades(@, now_ts) ]
  IN  [ w EXCEPT !.e = e2,
                 !.prev = [ p \in Pairs |->
                              IF w.e.trades[p].present /\ ~e2.trades[p].present
                                THEN [ @[p] EXCEPT
                                         !.evicted = TRUE,
                                         !.seen = w.e.trades[p].buy_volume
                                                  + w.e.trades[p].sell_volume ]
                                ELSE @[p] ] ]

\* a step of run_cleanup that leaves the world as w2 and the sweeper as sw
SweeperStep(w2, sw, o) ==
  /\ SetWorld(w2)
  /\ sweeper' = sw
  /\ last' = o
  /\ UNCHANGED << count, locks, tasks, batch, disk, saver, feed, roles, trader,
                  twin, evaluator, config, requests >>

\* the sleep of 600 s is over: now is read and trades.retain runs
CleanupWake ==
  /\ sweeper.pc = "sleep"
  /\ \E w2 \in { DoRetain(World, now) } :
       SweeperStep(w2, [ sweeper EXCEPT !.pc = "scan", !.now = now ],
                   [ op |-> "cleanup_retain" ])

\* the loop over candles.iter()
CleanupScan ==
  /\ sweeper.pc = "scan"
  /\ SweeperStep(World,
                 [ sweeper EXCEPT !.pc = "reset",
                                  !.to_reset = ToReset(candles, sweeper.now) ],
                 [ op |-> "cleanup_scan" ])

\* one turn of the loop over to_reset
CleanupInsert(k) ==
  /\ sweeper.pc = "reset"
  /\ k \in sweeper.to_reset
  /\ \E w2 \in { [ World EXCEPT !.e.candles = ResetCandle(@, k) ] } :
       SweeperStep(w2, [ sweeper EXCEPT !.to_reset = @ \ {k} ],
                   [ op |-> "cleanup_insert", pair |-> k, before |-> candles[k],
                     cutoff |-> sweeper.now - 24 * 3600 ])

\* orderbooks.retain, after the last reset
CleanupBooks ==
  /\ sweeper.pc = "reset"
  /\ sweeper.to_reset = {}
  /\ \E w2 \in { [ World EXCEPT
                      !.e.orderbooks = CleanBooks(@, sweeper.now) ] } :
       SweeperStep(w2, [ sweeper EXCEPT !.pc = "anom" ],
                   [ op |-> "cleanup_books" ])

\* the recent_anom flags are reset and the sweeper sleeps again
CleanupAnom ==
  /\ sweeper.pc = "anom"
  /\ \E w2 \in { [ World EXCEPT !.e.trades = ResetAnom(@, sweeper.now) ] } :
       SweeperStep(w2, SweeperAsleep, [ op |-> "cleanup_anom" ])

NextCleanup ==
  \/ \E p \in Pairs : Trade(MaxCleanupSteps, p, 100, 1, "b", FALSE)
  \/ Ticker(MaxCleanupSteps, "X/EUR", 100, 1, 100)
  \/ \E d \in {61, 86401} : Tick(MaxCleanupSteps, d)
  \/ CleanupWake
  \/ CleanupScan
  \/ \E k \in Pairs : CleanupInsert(k)
  \/ CleanupBooks
  \/ CleanupAnom

SpecCleanup == Init /\ [][NextCleanup]_vars

\* ------------------------------------- the evaluator beside the handlers
\* lock() that returns at once, whoever holds a guard
MutexAnyway(m) == TRUE

\* Mutex::lock on engine.weights or engine.signals returns when no guard of
\* it is alive. A handler drops its guard within the step that took it; the
\* evaluator keeps the guard of weights from its first lock and that of
\* signals from its second, both to the end of its pass
MutexFree(m) ==
  CASE m = "weights" -> evaluator.pc \notin {"signals.lock", "event"}
    [] m = "signals" -> evaluator.pc # "event"

\* the pass reads the candle of the event ev
NeedsCandle(ev, now_ts) ==
  /\ ~ev.evaluated
  /\ now_ts - ev.ts >= EvalHorizon
  /\ ev.rating # "NONE"

\* handle_trade with the entries of trades and candles held, from
\* tickers.get(pair) to `self.weights.lock().unwrap().clone()`: the weights
\* it scores the trade with are the copy it takes here
TradeWeights(t) ==
  /\ t \in Workers
  /\ tasks[t].pc = "tickers.get"
  /\ CanEnter(<<"tickers", tasks[t].op.pair>>)
  /\ MutexFree("weights")
  /\ tasks' = [ tasks EXCEPT ![t] =
                 [ pc |-> "push_signal", op |-> @.op @@ [ w |-> weights ] ] ]
  /\ UNCHANGED << trades, candles, tickers, orderbooks, signals,
                  signalled_pairs, weights, stars, now, npushed, prev, count,
                  last, locks, batch, disk, saver, feed, roles, trader, twin,
                  sweeper, evaluator, config, requests >>

\* handle_trade from its total score to its end, the trade scored with the
\* weights it copied: its events go to the ring through push_signal, which
\* locks signals
TradePush(t) ==
  /\ t \in Workers
  /\ tasks[t].pc = "push_signal"
  /\ \E w0 \in { [ World EXCEPT !.e.weights = tasks[t].op.w ] } :
     \E w1 \in { DoTrade(w0, tasks[t].op.pair, tasks[t].op.price,
                          tasks[t].op.volume, tasks[t].op.side, FALSE) } :
     \E w2 \in { [ w1 EXCEPT !.e.weights = weights ] } :
        /\ PushedEvents(Engine, w2.e) # <<>> => MutexFree("signals")
        /\ SetWorld(w2)
        /\ last' = [ op |-> "trade", pair |-> tasks[t].op.pair,
                     price |-> tasks[t].op.price,
                     volume |-> tasks[t].op.volume, side |-> tasks[t].op.side,
                     ts |-> TradeTs(now, FALSE),
                     from_empty |-> Engine = EmptyEngine,
                     before |-> prev[tasks[t].op.pair],
                     events |-> PushedEvents(Engine, w2.e) ]
  /\ Return(t)
  /\ UNCHANGED << count, disk, saver, feed, roles, trader, twin,
                  sweeper, evaluator, config, requests >>

\* a step of run_self_evaluator that leaves the ring as sigs, the weights as
\* w and the evaluator as ev
EvaluatorStep(sigs, w, ev) ==
  /\ signals' = sigs
  /\ weights' = w
  /\ evaluator' = ev
  /\ UNCHANGED << trades, candles, tickers, orderbooks, signalled_pairs,
                  stars, now, npushed, prev, count, last, locks, tasks, batch,
                  disk, saver, feed, roles, trader, twin, sweeper, config,
                  requests >>

\* the sleep of 60 s is over and now_ts is read
EvalWake ==
  /\ evaluator.pc = "sleep"
  /\ EvaluatorStep(signals, weights,
                   [ evaluator EXCEPT !.pc = "weights.lock", !.now = now ])

\* engine.weights.lock()
EvalLockWeights ==
  /\ evaluator.pc = "weights.lock"
  /\ EvaluatorStep(signals, weights,
                   [ evaluator EXCEPT !.pc = "signals.lock" ])

\* engine.signals.lock()
EvalLockSignals ==
  /\ evaluator.pc = "signals.lock"
  /\ EvaluatorStep(signals, weights,
                   [ evaluator EXCEPT !.pc = "event", !.i = 1 ])

\* one turn of the loop over sigs.iter_mut(); engine.candles.get(&ev.pair)
\* waits for the entry of the pair in candles
EvalEvent ==
  /\ evaluator.pc = "event"
  /\ evaluator.i <= Len(signals)
  /\ NeedsCandle(signals[evaluator.i], evaluator.now)
       => CanEnter(<<"candles", signals[evaluator.i].pair>>)
  /\ \E r \in { EvalOne(signals[evaluator.i], weights, candles,
                         evaluator.now) } :
       EvaluatorStep([ signals EXCEPT ![evaluator.i] = r.ev ], r.w,
                     [ evaluator EXCEPT !.i = @ + 1 ])

\* the loop is over and the two guards go out of scope
EvalDone ==
  /\ evaluator.pc = "event"
  /\ evaluator.i > Len(signals)
  /\ EvaluatorStep(signals, weights,
                   [ evaluator EXCEPT !.pc = "sleep", !.i = 0,
                                      !.settled = weights ])

NextPass ==
  \/ \E price \in {100, 102} :
       TradeCall(MaxPassSteps, "ws1", "X/EUR", price, 1, "b")
  \/ \E t \in Workers : TradeEntry(t)
  \/ \E t \in Workers : TradeCandleEntry(t)
  \/ \E t \in Workers : TradeWeights(t)
  \/ \E t \in Workers : TradePush(t)
  \/ Tick(MaxPassSteps, 301)
  \/ EvalWake
  \/ EvalLockWeights
  \/ EvalLockSignals
  \/ EvalEvent
  \/ EvalDone

SpecPass == InitLocks /\ [][NextPass]_vars

\* --------------------------------- paper-trader requests side by side
\* a step of a paper-trader request that leaves the ledger as tr, the files
\* as dk and the requests as rq
DeskStep(tr, dk, rq, o) ==
  /\ trader' = tr
  /\ disk' = dk
  /\ requests' = rq
  /\ last' = o
  /\ UNCHANGED << trades, candles, tickers, orderbooks, signals,
                  signalled_pairs, weights, stars, now, npushed, prev, locks,
                  tasks, batch, saver, feed, roles, twin, sweeper, evaluator,
                  config >>

\* the request r after the block under the manual_trader mutex gave res:
\* with success it goes on to save the clone it took, else it answers
AfterLedger(r, res) ==
  [ requests EXCEPT ![r] =
      IF res.ok THEN [ pc |-> "save", clone |-> res.trader ] ELSE NoRequest ]

\* Engine::manual_add_trade up to the end of its block under the mutex
DeskOpen(lim, r, pair, sl_pct, tp_pct, fee_pct, manual_amount) ==
  /\ count < lim
  /\ requests[r].pc = "idle"
  /\ count' = count + 1
  /\ IF CurrentClose(Engine, pair) <= 0
       THEN DeskStep(trader, disk, requests,
                     [ op |-> "open", by |-> r, ok |-> FALSE ])
       ELSE \E res \in { AddTrade(trader, pair, CurrentClose(Engine, pair),
                                   sl_pct, tp_pct, fee_pct, manual_amount,
                                   now) } :
              DeskStep(res.trader, disk, AfterLedger(r, res),
                       [ op |-> "open", by |-> r, ok |-> res.ok ])

\* Engine::manual_close_trade up to the end of its block under the mutex
DeskClose(lim, r, pair) ==
  /\ count < lim
  /\ requests[r].pc = "idle"
  /\ count' = count + 1
  /\ IF CurrentClose(Engine, pair) <= 0
       THEN DeskStep(trader, disk, requests,
                     [ op |-> "close", by |-> r, ok |-> FALSE ])
       ELSE \E res \in { CloseTrade(trader, pair, CurrentClose(Engine, pair),
                                     now) } :
              DeskStep(res.trader, disk, AfterLedger(r, res),
                       [ op |-> "close", by |-> r, ok |-> res.ok ])

\* state_clone.save().await: manual_trades.json is written
DeskSave(r) ==
  /\ requests[r].pc = "save"
  /\ DeskStep(trader, [ disk EXCEPT !.manual_trades = Some(requests[r].clone) ],
              [ requests EXCEPT ![r].pc = "save_equity" ],
              [ op |-> "save", by |-> r, ok |-> TRUE ])
  /\ UNCHANGED count

\* state_clone.save_equity().await: manual_trades_equity.json is written,
\* and the request answers
DeskSaveEquity(r) ==
  /\ requests[r].pc = "save_equity"
  /\ DeskStep(trader,
              [ disk EXCEPT
                  !.manual_equity = Some(requests[r].clone.equity_curve) ],
              [ requests EXCEPT ![r] = NoRequest ],
              [ op |-> "save_equity", by |-> r, ok |-> TRUE ])
  /\ UNCHANGED count

NextDesk ==
  \/ \E price \in {100, 103} :
       Trade(MaxDeskSteps, "X/EUR", price, 1, "b", FALSE)
  \/ Tick(MaxDeskSteps, 6)
  \/ \E r \in Requests, amount \in {100, 250} :
       DeskOpen(MaxDeskSteps, r, "X/EUR", 2, 5, 26, amount)
  \/ \E r \in Requests : DeskClose(MaxDeskSteps, r, "X/EUR")
  \/ \E r \in Requests : DeskSave(r)
  \/ \E r \in Requests : DeskSaveEquity(r)

SpecDesk == InitPaper /\ [][NextDesk]_vars

\* ------------------------------------------------- the flags of a pair
\* the news scanner hands a sentiment for pair to Engine::update_sentiment
Sentiment(lim, pair, sentiment) ==
  /\ count < lim
  /\ \E w2 \in { [ World EXCEPT
                      !.e = UpdateSentiment(@, pair, sentiment, now) ] } :
        /\ Set(w2)
        /\ count' = count + 1
        /\ last' = [ op |-> "sentiment", pair |-> pair ]

NextFlags ==
  \/ \E side \in {"b", "s"}, volume \in {1, 60} :
       Trade(MaxFlagSteps, "X/EUR", 100, volume, side, FALSE)
  \/ \E lp \in {100, 190} : Ticker(MaxFlagSteps, "X/EUR", lp, 1, 100)
  \/ \E sentiment \in {200, 800} : Sentiment(MaxFlagSteps, "X/EUR", sentiment)
  \/ \E d \in {61, 18001, 43201} : Tick(MaxFlagSteps, d)
  \/ SweepSeen

SpecFlags == Init /\ [][NextFlags]_vars

\* ------------------------------------------- events coming due, fairly
\* an event of the ring that the evaluator has not marked
Open(ev) == ~ev.evaluated

\* the clock moves on past the horizon of the events that wait for it
DueTick ==
  /\ \E i \in 1..Len(signals) :
       Open(signals[i]) /\ now - signals[i].ts < EvalHorizon
  /\ Set(DoTick(World, EvalHorizon + 1))
  /\ last' = [ op |-> "tick" ]
  /\ UNCHANGED count

NextDue ==
  \/ \E price \in {100, 102} :
       TradeCall(MaxDueSteps, "ws1", "X/EUR", price, 1, "b")
  \/ \E t \in Workers : TradeEntry(t)
  \/ \E t \in Workers : TradeCandleEntry(t)
  \/ \E t \in Workers : TradeWeights(t)
  \/ \E t \in Workers : TradePush(t)
  \/ DueTick
  \/ EvalWake
  \/ EvalLockWeights
  \/ EvalLockSignals
  \/ EvalEvent
  \/ EvalDone

\* the events the trade of task t, at its push_signal calls, is to push
Pushes(t) ==
  Strict([ World EXCEPT !.e.weights = tasks[t].op.w ], LAMBDA w0 :
    PushedEvents(Engine,
                 DoTrade(w0, tasks[t].op.pair, tasks[t].op.price,
                         tasks[t].op.volume, tasks[t].op.side, FALSE).e))

\* TradePush(t) can be taken
PushReady(t) ==
  /\ tasks[t].pc = "push_signal"
  /\ Pushes(t) # <<>> => MutexFree("signals")

\* the runtime runs the evaluator and a trade worker whenever they can go
\* on: a sleep ends, a lock that is free is given. Time passes. TradePush is
\* the one step that takes a worker out of push_signal, so its weak
\* fairness is that the worker is not ready there for ever.
SpecDue ==
  /\ InitLocks
  /\ [][NextDue]_vars
  /\ WF_vars(EvalWake \/ EvalLockWeights \/ EvalLockSignals \/ EvalEvent
               \/ EvalDone)
  /\ WF_vars(DueTick)
  /\ WF_vars(TradeEntry("ws1") \/ TradeCandleEntry("ws1")
               \/ TradeWeights("ws1"))
  /\ []<>(~PushReady("ws1"))

\* -------------------------------------------------------- the trade feed
\* the chunk of pairs main hands to each worker
WsPairs == [ t \in Workers |-> IF t = "ws1" THEN {"X/EUR"} ELSE {"Y/EUR"} ]

\* serde_json values: a string that spells a number, any other string, a
\* number, an array
NumStr(n) == [ t |-> "string", spells |-> Some(n), word |-> "#", v |-> <<>> ]
Word(s) == [ t |-> "string", spells |-> None, word |-> s, v |-> <<>> ]
Num(n) == [ t |-> "number", spells |-> Some(n), word |-> "", v |-> <<>> ]
Arr(s) == [ t |-> "array", spells |-> None, word |-> "", v |-> s ]

\* a text frame: whether it contains "event", and what from_str makes of it
NotJson == [ t |-> "no json", spells |-> None, word |-> "", v |-> <<>> ]
Frame(json) == [ event |-> FALSE, json |-> json ]
EventFrame ==
  [ event |-> TRUE,
    json |-> [ t |-> "object", spells |-> None, word |-> "", v |-> <<>> ] ]

\* a trade message of the feed with the entries es for pair X/EUR
TradeFrame(es) == Frame(Arr(<< Num(0), Arr(es), Word("trade"), Word("X/EUR") >>))

\* t.as_array().unwrap(), ta[0..2].as_str().unwrap() and ta[3] on an entry
EntryPanics(t) ==
  \/ t.t # "array"
  \/ Len(t.v) < 4
  \/ \E i \in 1..3 : t.v[i].t # "string"

\* the loop over the entries of one message from world w on: parse with
\* unwrap_or(0.0), handle_trade for a positive price and volume, with the
\* panic of an unwrap ending the loop and the task
RECURSIVE HandleEntries(_, _, _)
HandleEntries(w, pair, es) ==
  IF es = <<>> THEN [ w |-> w, panic |-> FALSE ]
  ELSE IF EntryPanics(Head(es)) THEN [ w |-> w, panic |-> TRUE ]
  ELSE LET ta == Head(es).v
           price == UnwrapOr(ta[1].spells, 0)
           vol == UnwrapOr(ta[2].spells, 0)
           ts == UnwrapOr(ta[3].spells, 0)
           side == IF ta[4].t = "string" THEN ta[4].word ELSE "b"
       IN  Strict(IF price > 0 /\ vol > 0
                    THEN DoTrade(w, pair, price, vol, side, ts = 0)
                    ELSE w,
                  LAMBDA w1 : HandleEntries(w1, pair, Tail(es)))

\* the body of the read loop for one text frame m
HandleText(w, m) ==
  IF m.event \/ m.json.t = "no json" THEN [ w |-> w, panic |-> FALSE ]
  ELSE IF m.json.t # "array" THEN [ w |-> w, panic |-> FALSE ]
  ELSE IF Len(m.json.v) < 4 THEN [ w |-> w, panic |-> FALSE ]
  ELSE IF m.json.v[2].t # "array" THEN [ w |-> w, panic |-> TRUE ]
  ELSE HandleEntries(w,
                     IF m.json.v[4].t = "string" THEN m.json.v[4].word
                                                 ELSE "UNKNOWN",
                     m.json.v[2].v)

\* a worker that returns on a failure
GiveUp(f) == [ f EXCEPT !.pc = "stopped", !.sub = {} ]

\* eprintln, sleep(5 s) and back to the top of the loop
Backoff(f) ==
  [ f EXCEPT !.pc = "sleep", !.streak = Min(@ + 1, MaxStreak), !.sub = {} ]

FeedTo(t, f) ==
  /\ feed' = [ feed EXCEPT ![t] = f ]
  /\ last' = [ op |-> "feed", by |-> t ]
  /\ UNCHANGED << trades, candles, tickers, orderbooks, signals,
                  signalled_pairs, weights, stars, now, npushed, prev, count,
                  locks, tasks, batch, disk, saver, roles, trader, twin,
                  sweeper, evaluator, config, requests >>

\* connect_async fails
ConnectError(t) == feed[t].pc = "connecting" /\ FeedTo(t, Backoff(feed[t]))

\* connect_async succeeds
ConnectOk(t) ==
  feed[t].pc = "connecting" /\ FeedTo(t, [ feed[t] EXCEPT !.pc = "connected" ])

\* write.send of the subscription fails
SubscribeError(t) == feed[t].pc = "connected" /\ FeedTo(t, Backoff(feed[t]))

\* the subscription for the worker's pairs is sent
SubscribeOk(t) ==
  /\ feed[t].pc = "connected"
  /\ FeedTo(t, [ pc |-> "subscribed", streak |-> 0,
                 recovered |-> feed[t].streak >= MaxStreak,
                 sub |-> WsPairs[t] ])

\* read.next() gives an error
ReadError(t) == feed[t].pc = "subscribed" /\ FeedTo(t, Backoff(feed[t]))

\* read.next() gives None
StreamEnd(t) == feed[t].pc = "subscribed" /\ FeedTo(t, Backoff(feed[t]))

\* the 5 s are over
SleepOver(t) ==
  feed[t].pc = "sleep" /\ FeedTo(t, [ feed[t] EXCEPT !.pc = "connecting" ])

\* read.next() gives the text frame m
Receive(lim, t, m) ==
  /\ count < lim
  /\ feed[t].pc = "subscribed"
  /\ \E r \in { HandleText(World, m) } :
        /\ SetWorld(r.w)
        /\ feed' = [ feed EXCEPT ![t].pc =
                       IF r.panic THEN "panicked" ELSE @ ]
        /\ UNCHANGED << locks, tasks, batch, disk, saver, roles, trader, twin,
                  sweeper, evaluator, config, requests >>
        /\ last' = [ op |-> "frame", by |-> t, m |-> m, e0 |-> Engine ]
  /\ count' = count + 1

\* the frames of the feed at time now; the feed sends them to the worker
\* subscribed to X/EUR
Entry(price, vol, ts, side) == Arr(<< price, vol, ts, side >>)
GoodEntry == Entry(NumStr(100), NumStr(1), NumStr(TradeTs(now, FALSE)), Word("b"))
Frames ==
  << EventFrame,
    Frame(NotJson),
    Frame(Arr(<< Num(0), Arr(<< GoodEntry >>), Word("trade") >>)),
    TradeFrame(<< GoodEntry >>),
    Frame(Arr(<< Num(0), Num(1), Word("trade"), Word("X/EUR") >>)),
    TradeFrame(<< Num(100) >>),
    TradeFrame(<< Entry(Num(100), NumStr(1), NumStr(TradeTs(now, FALSE)), Word("b")) >>),
    TradeFrame(<< Entry(Word("abc"), NumStr(1), NumStr(TradeTs(now, FALSE)), Word("b")) >>),
    TradeFrame(<< Entry(NumStr(100), NumStr(1), Word("abc"), Word("b")) >>),
    TradeFrame(<< GoodEntry, Entry(NumStr(100), Num(1), Word("abc"), Word("b")) >>) >>

InitWorker == StartIn(EmptyWorld)

NextWorker ==
  \/ \E t \in Workers : ConnectError(t)
  \/ \E t \in Workers : ConnectOk(t)
  \/ \E t \in Workers : SubscribeError(t)
  \/ \E t \in Workers : SubscribeOk(t)
  \/ \E t \in Workers : ReadError(t)
  \/ \E t \in Workers : StreamEnd(t)
  \/ \E t \in Workers : SleepOver(t)
  \/ \E t \in Workers, i \in 1..Len(Frames) :
       "X/EUR" \in WsPairs[t] /\ Receive(MaxFrameSteps, t, Frames[i])

\* the runtime runs a worker that can go on; while the feed is reachable a
\* worker that keeps trying gets its connection and its subscription through
SpecWorker ==
  /\ InitWorker
  /\ [][NextWorker]_vars
  /\ \A t \in Workers :
       /\ WF_vars(SleepOver(t))
       /\ SF_vars(ConnectOk(t))
       /\ SF_vars(SubscribeOk(t))

\* the evaluator at work on a new engine
InitEval == StartIn(EmptyWorld)

NextEval ==
  \/ \E price \in {100, 101, 103}, v \in {1, 100} :
       Trade(MaxEvalSteps, "X/EUR", price, v, "b", FALSE)
  \/ Trade(MaxEvalSteps, "X/EUR", 100, 1, "b", TRUE)
  \/ \E lp \in {100, 130} : Ticker(MaxEvalSteps, "X/EUR", lp, 1, 100)
  \/ Evaluate
  \/ Sweep
  \/ \E d \in {301, 86401} : Tick(MaxEvalSteps, d)

SpecEval == InitEval /\ [][NextEval]_vars

\* the weights at their limits: days into a rising or a falling market, with
\* the signals of the day not yet evaluated
InitClamp ==
  \/ \E w \in { RisingStart } : StartIn(w)
  \/ \E w \in { FallingStart } : StartIn(w)

NextClamp ==
  \/ \E price \in {100, 103}, v \in {1, 100} :
       Trade(MaxClampSteps, "X/EUR", price, v, "b", FALSE)
  \/ Trade(MaxClampSteps, "X/EUR", 100, 1, "s", FALSE)
  \/ Evaluate
  \/ Sweep
  \/ \E d \in {301, 86401} : Tick(MaxClampSteps, d)

SpecClamp == InitClamp /\ [][NextClamp]_vars

\* the ring at its capacity: the engine new, or after many scanner rounds
InitRing ==
  \/ StartIn(EmptyWorld)
  \/ \E w \in { RingStart } : StartIn(w)

NextRing ==
  \/ \E v \in {1, 100}, sd \in {"b", "s"} :
       Trade(MaxRingSteps, "X/EUR", 100, v, sd, FALSE)
  \/ \E p \in Pairs, lp \in {100, 130} : Ticker(MaxRingSteps, p, lp, 1, 100)
  \/ \E v \in {1, 100}, k \in 0..3 :
       TradeAmidTicker(MaxRingSteps, "X/EUR", 100, v, "b", "Y/EUR", 130, k)
  \/ Evaluate

SpecRing == InitRing /\ [][NextRing]_vars

\* =================================================================== claims
\* the events of the last handler call that carry one of the types in tys
EventsOf(tys) == SelectSeq(last.events, LAMBDA ev : ev.signal_type \in tys)

TypesOf(evs) == [ i \in 1..Len(evs) |-> evs[i].signal_type ]

\* the TradeState the last trade left behind
TradedState == trades[last.pair]

PumpLabels == {"EARLY_PUMP", "MEGA_PUMP"}

\* ---- C1
\* C1: the ring holds at most 400 events and is always the most recent (up
\* to 400) pushed events in push order, the oldest dropped first.
C1_RingRecent ==
  /\ Len(signals) <= 400
  /\ Len(signals) = (IF npushed < 400 THEN npushed ELSE 400)
  /\ \A i \in 1..Len(signals) :
        signals[i].seq = npushed - Len(signals) + i

\* a trade whose events overflowed the ring, the event of a ticker pushed
\* in between them
C1_Witness ==
  /\ last.op = "trade amid ticker"
  /\ last.k > 0
  /\ Len(last.events) > 2
  /\ npushed > 400
  /\ npushed - Len(last.events) < 400

\* ---- C2
\* C2: from the default weights on, each of the six weights stays within
\* [0.2, 5.0] whatever the evaluator passes.
C2_WeightsInRange ==
  \A v \in { weights.flow_w, weights.price_w, weights.whale_w,
              weights.volume_w, weights.anomaly_w, weights.trend_w } :
    200 <= v /\ v <= 5000

\* a pass that took a weight to the upper limit
C2_Witness ==
  /\ last.op = "eval"
  /\ last.w0.flow_w < 5000
  /\ weights.flow_w = 5000

\* ---- C3
\* C3: handle_trade pushes a WHALE event exactly when the trade is a whale
\* and the pair's previous trade was not one (so none for a whale after a
\* whale and none for a non-whale after a whale); the event's direction is
\* BUY for side b and SELL otherwise.
C3_WhaleEdge ==
  last.op = "trade" =>
    LET rising == TradedState.last_whale /\ ~last.before.is_whale
        evs == EventsOf({"WHALE"})
    IN  /\ Len(evs) = (IF rising THEN 1 ELSE 0)
        /\ \A i \in 1..Len(evs) :
              evs[i].direction = (IF last.side = "b" THEN "BUY" ELSE "SELL")

\* a whale trade that directly follows a whale trade and pushes no WHALE
C3_Witness ==
  /\ last.op = "trade"
  /\ TradedState.last_whale
  /\ last.before.is_whale
  /\ EventsOf({"WHALE"}) = <<>>

\* ---- C4
\* the pump label the pair's TradeState holds when the trade arrives: the
\* label of the pair's previous trade, NONE when there was none or when the
\* sweep has evicted the TradeState since
HeldPumpLabel ==
  IF last.before.any /\ ~last.before.evicted
    THEN last.before.pump_label ELSE "NONE"

\* the pump label of the pair's previous trade, whatever happened since
PreviousPumpLabel ==
  IF last.before.any THEN last.before.pump_label ELSE "NONE"

PumpEdge(held) ==
  last.op = "trade" =>
    LET lbl == UnwrapOr(TradedState.last_pump_signal, "NONE")
        evs == EventsOf(PumpLabels)
    IN  IF lbl \in PumpLabels /\ lbl # held
          THEN Len(evs) = 1 /\ evs[1].signal_type = lbl
               /\ evs[1].direction = "BUY"
          ELSE evs = <<>>

\* C4 (amended): handle_trade pushes an EARLY_PUMP or MEGA_PUMP event
\* (direction BUY) exactly when the trade's pump label is one of the two and
\* differs from the label the pair's TradeState holds, which is the label of
\* the pair's previous trade unless the sweep has evicted the TradeState
\* since; so a run of trades with one pump label and no eviction in between
\* pushes exactly one pump event.
C4_PumpEdge == PumpEdge(HeldPumpLabel)

\* a trade that repeats the stored pump label and pushes no pump event
C4_Witness ==
  /\ last.op = "trade"
  /\ last.before.any /\ ~last.before.evicted
  /\ last.before.pump_label \in PumpLabels
  /\ UnwrapOr(TradedState.last_pump_signal, "NONE") = last.before.pump_label
  /\ EventsOf(PumpLabels) = <<>>

\* C4 as stated: the comparison is with the label of the pair's previous
\* trade, so consecutive trades with one pump label push one pump event.
C4_Original == PumpEdge(PreviousPumpLabel)

\* ---- C5
\* the first trade of an empty engine is (price 100, volume 1, side b, ts 0)
FirstTrade ==
  /\ last.op = "trade" /\ last.from_empty
  /\ last.price = 100 /\ last.volume = 1 /\ last.side = "b" /\ last.ts = 0

FirstTradeState ==
  /\ TradedState.buy_volume = 1
  /\ candles[last.pair].open = Some(100)
  /\ candles[last.pair].pct_change = Some(0)

\* C5 (amended): from the empty engine the trade (100, 1, b, ts 0) leaves
\* buy_volume = 1, candle open = 100, pct_change = 0 and the rating
\* STRONG BUY, and pushes four events, WH_PRED, EARLY_PUMP, EARLY and ALPHA
\* in this order, each with direction BUY.
C5_FirstTrade ==
  FirstTrade =>
    /\ FirstTradeState
    /\ TradedState.last_rating = Some("STRONG BUY")
    /\ TypesOf(last.events) = <<"WH_PRED", "EARLY_PUMP", "EARLY", "ALPHA">>
    /\ \A i \in 1..Len(last.events) : last.events[i].direction = "BUY"

C5_Witness == FirstTrade /\ Len(signals) = 4

\* C5 as stated: the rating is NONE and no event is pushed.
C5_Original ==
  FirstTrade =>
    /\ FirstTradeState
    /\ TradedState.last_rating = Some("NONE")
    /\ last.events = <<>>

\* ---- C6, C7, C8
\* an event the pass takes up: not evaluated, 300 s old, rated
Due(ev) == ~ev.evaluated /\ now - ev.ts >= 300 /\ ev.rating # "NONE"

HasClose(ev) == IsSome(candles[ev.pair].close)

\* C6: an event that is due, on a pair without a close price, is skipped:
\* the pass leaves it as it was (not evaluated, no return, no horizon).
C6_SkipsWithoutPrice ==
  last.op = "eval" =>
    \A i \in 1..Len(last.sigs0) :
      Due(last.sigs0[i]) /\ ~HasClose(last.sigs0[i])
        => signals[i] = last.sigs0[i]

\* the return of the event against the current close, in milli percent
ReturnOf(ev) ==
  Div((candles[ev.pair].close[1] - ev.price) * 100000, ev.price)

\* the weight v after an event with this score and this return
Stepped(v, score, ret) ==
  IF score <= 0 THEN v
  ELSE LET m == IF ret >= 2000 THEN Div(v * 102, 100)
                ELSE IF ret >= 500 THEN Div(v * 101, 100)
                ELSE IF ret <= -500 THEN Div(v * 98, 100)
                ELSE v
       IN  IF m < 200 THEN 200 ELSE IF m > 5000 THEN 5000 ELSE m

\* the weights after the due events of sigs that have a close to compare
\* with, oldest first
RECURSIVE WeightsAfter(_, _)
WeightsAfter(sigs, w) ==
  IF sigs = <<>> THEN w
  ELSE LET ev == Head(sigs)
           r == ReturnOf(ev)
       IN  WeightsAfter(Tail(sigs),
             IF Due(ev) /\ HasClose(ev)
               THEN [ flow_w |-> Stepped(w.flow_w, ev.flow_score, r),
                      price_w |-> Stepped(w.price_w, ev.price_score, r),
                      whale_w |-> Stepped(w.whale_w, ev.whale_score, r),
                      volume_w |-> Stepped(w.volume_w, ev.volume_score, r),
                      anomaly_w |-> Stepped(w.anomaly_w, ev.anomaly_score, r),
                      trend_w |-> Stepped(w.trend_w, ev.trend_score, r) ]
               ELSE w)

\* C7: a pass takes every due event whose pair has a current close in turn,
\* ret being the move from the event's price to that close in percent: each
\* weight whose score in the event is positive is multiplied by 1.02 for
\* ret >= 2, by 1.01 for 0.5 <= ret < 2, by 0.98 for ret <= -0.5 and clamped
\* to [0.2, 5.0], every other weight is left alone, and the event gets
\* ret_5m = ret, eval_horizon_sec = now - ts and evaluated = true.
C7_EvaluatorPass ==
  last.op = "eval" =>
    /\ weights = WeightsAfter(last.sigs0, last.w0)
    /\ \A i \in 1..Len(last.sigs0) :
          Due(last.sigs0[i]) /\ HasClose(last.sigs0[i]) =>
            signals[i] = [ last.sigs0[i] EXCEPT
                             !.ret_5m = Some(ReturnOf(last.sigs0[i])),
                             !.eval_horizon_sec = Some(now - last.sigs0[i].ts),
                             !.evaluated = TRUE ]

\* a pass over a due event with a return of 2 % or more and one positive
\* score, which raised that weight and no other
C7_Witness ==
  /\ last.op = "eval"
  /\ \E i \in 1..Len(last.sigs0) :
        /\ Due(last.sigs0[i]) /\ HasClose(last.sigs0[i])
        /\ ReturnOf(last.sigs0[i]) >= 2000
        /\ last.sigs0[i].price_score = 0
  /\ weights.flow_w > last.w0.flow_w
  /\ weights.price_w = last.w0.price_w

\* C8: a pass over a ring in which every event is already evaluated (ANOM
\* events are emitted so) changes no weight and no event, so a second pass
\* right after a first gives what the first gave.
C8_EvaluatedNoOp ==
  (last.op = "eval" /\ \A i \in 1..Len(last.sigs0) : last.sigs0[i].evaluated)
  => (signals = last.sigs0 /\ weights = last.w0)

\* a pass over a ring of evaluated events, an ANOM event and an event with a
\* return that would move the weights among them
C8_Witness ==
  /\ last.op = "eval"
  /\ \A i \in 1..Len(last.sigs0) : last.sigs0[i].evaluated
  /\ \E i \in 1..Len(last.sigs0) : last.sigs0[i].signal_type = "ANOM"
  /\ \E i \in 1..Len(last.sigs0) :
        /\ IsSome(last.sigs0[i].ret_5m)
        /\ last.sigs0[i].ret_5m[1] >= 2000

\* ---- C9
\* C9: whenever a pair's candle is initialized, low <= open <= high and
\* low <= close <= high.
C9_CandleOrdered ==
  \A p \in Pairs :
    LET c == candles[p]
    IN  IsSome(c.open) =>
          /\ c.low[1] <= c.open[1] /\ c.open[1] <= c.high[1]
          /\ c.low[1] <= c.close[1] /\ c.close[1] <= c.high[1]

\* ---- C10
\* C10: after handle_trade for a trade with timestamp ts, every sample of the
\* pair's short buy and sell windows has timestamp >= ts - 60 s, and every
\* sample of its long buy and sell windows and of its price window has
\* timestamp >= ts - 300 s, also when timestamps go backwards.
C10_WindowsPruned ==
  last.op = "trade" =>
    LET t == TradedState
        Fresh(win, secs) ==
          \A i \in 1..Len(win) : win[i][1] >= last.ts - 2 * secs
    IN  /\ Fresh(t.recent_buys, 60) /\ Fresh(t.recent_sells, 60)
        /\ Fresh(t.recent_buys_5m, 300) /\ Fresh(t.recent_sells_5m, 300)
        /\ Fresh(t.recent_prices, 300)

\* a trade whose handler dropped an older sample from the short windows
\* while the long windows still hold it
C10_Witness ==
  /\ last.op = "trade"
  /\ Len(TradedState.recent_buys) + Len(TradedState.recent_sells)
       < Len(TradedState.recent_buys_5m) + Len(TradedState.recent_sells_5m)

ObservedVolume(p) ==
  IF trades[p].present
    THEN trades[p].buy_volume + trades[p].sell_volume
    ELSE prev[p].seen

\* C12: across every step (trades, ticker samples, sweeps) the observed
\* buy_volume + sell_volume of a pair never decreases.
C12_VolumeMonotone ==
  [][\A p \in Pairs : ObservedVolume(p)' >= ObservedVolume(p)]_vars

\* ---- C13
\* the state after the handler calls ops, one after the other, from state w
RECURSIVE Serial(_, _)
Serial(w, ops) ==
  IF ops = <<>> THEN w
  ELSE LET o == Head(ops)
       IN  Serial(IF o.op = "trade"
                    THEN DoTrade(w, o.pair, o.price, o.volume, o.side, FALSE)
                    ELSE DoTicker(w, o.pair, o.last_p, o.vol24h, o.open),
                  Tail(ops))

\* the orders of the calls ops that keep the calls of each task in the order
\* the task made them
Orders(ops) ==
  { f \in [ 1..Len(ops) -> 1..Len(ops) ] :
      /\ \A i, j \in 1..Len(ops) : i # j => f[i] # f[j]
      /\ \A i, j \in 1..Len(ops) :
            (i < j /\ ops[f[i]].by = ops[f[j]].by) => ops[f[i]].seq < ops[f[j]].seq }

\* C13: when handler calls for one pair overlap on different tasks, the
\* TradeState and the CandleState they leave are those of the calls run one
\* after the other in some order, and the calls of one task take effect in
\* the order the task made them.
C13_Serialized ==
  (Quiet /\ batch.done # <<>>) =>
    /\ \E f \in Orders(batch.done) :
          LET w == Serial(batch.base, [ i \in 1..Len(batch.done) |-> batch.done[f[i]] ])
          IN  w.e.trades = trades /\ w.e.candles = candles
    /\ \A i, j \in 1..Len(batch.done) :
          (i < j /\ batch.done[i].by = batch.done[j].by)
            => batch.done[i].seq < batch.done[j].seq

\* a trade and a ticker sample with an anomaly of one pair that overlapped
\* and have both returned
C13_Witness ==
  /\ Quiet
  /\ Len(batch.done) = 2
  /\ batch.calls = 2
  /\ \E i, j \in 1..2 :
        /\ batch.done[i].op = "trade" /\ batch.done[j].op = "ticker"
        /\ batch.done[i].pair = batch.done[j].pair
  /\ trades["X/EUR"].recent_anom

\* ---- C14
\* C14: once an event has been pushed for a pair, every later snapshot has
\* a row for it, whatever its flags and whatever the sweep did since; a pair
\* that never signalled, with no whale and early = alpha = NONE, has none.
C14_SignalledHasRow ==
  \A p \in Pairs :
    /\ p \in signalled_pairs => p \in SnapshotPairs(Engine)
    /\ ( /\ p \notin signalled_pairs
         /\ ~trades[p].last_whale
         /\ UnwrapOr(trades[p].last_early, "NONE") = "NONE"
         /\ UnwrapOr(trades[p].last_alpha, "NONE") = "NONE" )
       => p \notin SnapshotPairs(Engine)

\* C15: a ticker sample whose score is above 40 with a jump above 0.3 % or a
\* volume ratio above 2 stamps the anomaly (time, direction by the price
\* against the previous one, strength = score) on the TickerState, sets
\* recent_anom and pushes exactly one ANOM event, already evaluated, whether
\* or not the sample before it qualified; any other sample pushes nothing and
\* leaves the anomaly record and recent_anom as they were
SampleScore == TickerCalc(last.tk0, last.last_p, last.vol24h, last.open)
SampleQualifies ==
  /\ SampleScore.score > 40000
  /\ (SampleScore.jump > 300 \/ SampleScore.vol_ratio > 2000)
SampleDirection ==
  IF last.last_p >= UnwrapOr(last.tk0.last_price, last.last_p)
    THEN "BUY" ELSE "SELL"
C15_AnomalyPerSample ==
  last.op = "ticker" =>
    LET tk == tickers[last.pair]
    IN  IF SampleQualifies
          THEN /\ tk.last_anom_ts = Some(last.ts)
               /\ tk.last_anom_dir = Some(SampleDirection)
               /\ tk.last_anom_strength = Some(SampleScore.score)
               /\ trades[last.pair].present
               /\ trades[last.pair].recent_anom
               /\ Len(last.events) = 1
               /\ last.events[1].signal_type = "ANOM"
               /\ last.events[1].pair = last.pair
               /\ last.events[1].evaluated
               /\ last.events[1].direction = SampleDirection
               /\ last.events[1].strength = SampleScore.score
          ELSE /\ last.events = <<>>
               /\ tk.last_anom_ts = last.tk0.last_anom_ts
               /\ tk.last_anom_dir = last.tk0.last_anom_dir
               /\ tk.last_anom_strength = last.tk0.last_anom_strength
               /\ trades[last.pair].recent_anom = last.anom0

\* a qualifying sample on a pair whose anomaly was already recorded: it is
\* recorded and pushed again
C15_Witness ==
  /\ last.op = "ticker"
  /\ SampleQualifies
  /\ last.anom0
  /\ last.tk0.last_anom_ts # None
  /\ Len(last.events) = 1

\* C16: a stars history that is dirty gets written to stars_history.json
\* and its dirty flag cleared by the saver
C16_DirtyPersisted ==
  stars.dirty ~> (~stars.dirty /\ disk.stars_history = Some(stars.history))

\* C17: when handle_trade has pushed a WH_PRED signal for a pair whose
\* recent_anom flag is set, its row is appended to the stars history
C17_RowForPrediction ==
  \A t \in Workers : (tasks[t].pc = "stars.lock") ~> (tasks[t].pc = "idle")

FeedMoves ==
  { <<"connecting", "connected">>, <<"connecting", "sleep">>,
    <<"connected", "subscribed">>, <<"connected", "sleep">>,
    <<"subscribed", "sleep">>, <<"subscribed", "panicked">>,
    <<"sleep", "connecting">> }
C18_Reconnects ==
  /\ [][ \A t \in Workers :
           feed'[t].pc # feed[t].pc => <<feed[t].pc, feed'[t].pc>> \in FeedMoves ]_vars
  /\ [](\A t \in Workers : feed[t].pc = "subscribed" => feed[t].sub = WsPairs[t])
  /\ \A t \in Workers : (feed[t].pc = "sleep") ~> (feed[t].pc = "subscribed")

\* a worker subscribed again after failures in a row
C18_Witness ==
  \E t \in Workers : feed[t].pc = "subscribed" /\ feed[t].recovered

\* C19: a malformed text frame (no JSON, an array of fewer than 4 elements,
\* a second element that is no list, an entry whose fields are not strings
\* that spell numbers) changes no engine state and leaves the worker reading
WellFormedEntry(t) ==
  /\ t.t = "array"
  /\ Len(t.v) >= 4
  /\ \A i \in 1..3 : t.v[i].t = "string" /\ t.v[i].spells # None
  /\ t.v[4].t = "string"
Malformed(m) ==
  /\ ~m.event
  /\ \/ m.json.t = "no json"
     \/ m.json.t # "array"
     \/ Len(m.json.v) < 4
     \/ m.json.v[2].t # "array"
     \/ \E i \in 1..Len(m.json.v[2].v) : ~WellFormedEntry(m.json.v[2].v[i])
C19_MalformedSkipped ==
  (last.op = "frame" /\ Malformed(last.m)) =>
     /\ Engine = last.e0
     /\ feed[last.by].pc = "subscribed"

\* C21: with the saver stuck for good in its save, every other role of the
\* join still comes to its next cycle
C21_RolesIndependent ==
  \A r \in JoinRoles \ {"http"} : \A b \in BOOLEAN :
    (saver.pc = "save.lock" /\ roles.beat[r] = b) ~> (roles.beat[r] # b)

\* C28: once run_http has found no port from 8080 to 8090 free, no role
\* takes another cycle and the engine stays as it is
C28_NoPortIsFatal ==
  [][ roles.http = "stopped" =>
        /\ roles'.beat = roles.beat
        /\ trades' = trades /\ tickers' = tickers /\ signals' = signals ]_vars

\* the open positions the ledger tr holds for pair
PositionsOf(tr, pair) == { q \in tr.trades : q.pair = pair }

\* C22: the paper trader never holds more than one open position per pair.
\* An open request on a pair that has a position, or that has no positive
\* close price, returns false and leaves the balance, the open positions and
\* the equity curve as they were; any other open request returns true and
\* stores exactly one position for the pair, at the close price.
C22_OnePositionPerPair ==
  /\ \A pair \in Pairs : Cardinality(PositionsOf(trader, pair)) <= 1
  /\ last.op = "open" =>
       IF ContainsKey(last.trader0.trades, last.pair) \/ last.price <= 0
         THEN /\ ~last.ok
              /\ trader = last.trader0
         ELSE /\ last.ok
              /\ Cardinality(PositionsOf(trader, last.pair)) = 1
              /\ \A q \in PositionsOf(trader, last.pair) :
                    q.entry_price = last.price
              /\ \A q \in Pairs \ {last.pair} :
                    PositionsOf(trader, q) = PositionsOf(last.trader0, q)
              /\ trader.balance = last.trader0.balance
              /\ trader.equity_curve = last.trader0.equity_curve

\* an open request refused for a pair that has a position and a close price
\* other than the position's entry price
C22_Witness ==
  /\ last.op = "open" /\ ~last.ok /\ last.price > 0
  /\ \E q \in PositionsOf(trader, last.pair) : q.entry_price # last.price

\* C23: signals_snapshot returns at most 400 events, newest first: of any
\* two events it returns, the one pushed later comes earlier
C23_NewestFirst ==
  LET v == SignalsSnapshot(Engine)
  IN  /\ Len(v) <= RingCap
      /\ \A i, j \in 1..Len(v) : i < j => v[i].seq > v[j].seq

Aliases ==
  { {"XBT", "XXBT", "BTC"}, {"XETH", "ETH"}, {"XXRP", "XRP"},
    {"XDG", "DOGE"} }

SameAsset(a, b) == a = b \/ \E c \in Aliases : a \in c /\ b \in c

\* C25 as stated: normalization is injective over the symbols of the feed,
\* no two wsnames have one normal form
C25_Injective ==
  last.op = "normalize" =>
    \A other \in WsNames :
      NormalizePair(other) = last.norm => other = last.wsname

\* C25, amended: normalization is idempotent, leaves a name that is not of
\* two parts alone, and gives two names of two parts one normal form exactly
\* when base and quote of the two stand for the same assets
C25_AliasesMerged ==
  last.op = "normalize" =>
    /\ NormalizePair(last.norm) = last.norm
    /\ Len(last.wsname) # 2 => last.norm = last.wsname
    /\ \A other \in WsNames :
         NormalizePair(other) = last.norm <=>
           IF Len(last.wsname) = 2
             THEN /\ Len(other) = 2
                  /\ SameAsset(other[1], last.wsname[1])
                  /\ SameAsset(other[2], last.wsname[2])
             ELSE other = last.wsname

\* XXBT/EUR has been normalized to BTC/EUR, the normal form of XBT/EUR too
C25_Witness ==
  /\ last.op = "normalize"
  /\ last.wsname = << "XXBT", "EUR" >>
  /\ last.norm = << "BTC", "EUR" >>
  /\ NormalizePair(<< "XBT", "EUR" >>) = last.norm

\* the flow the claim gives for buy sum b and sell sum s, the thresholds
\* hi/den and lo/den compared without a division; percent in milli
ClaimedFlow(b, s, hi, lo, den) ==
  IF b + s = 0 THEN [pct |-> 50000, dir |-> "NEUTR"]
  ELSE IF b * den > hi * (b + s)
    THEN [pct |-> Div(BuyFraction(b, s), 10), dir |-> "BUY"]
  ELSE IF b * den < lo * (b + s)
    THEN [pct |-> Div(1000000 - BuyFraction(b, s), 10), dir |-> "SELL"]
  ELSE [pct |-> 50000, dir |-> "NEUTR"]

\* C26: after every trade, with B and S the buy and sell sums of the pruned
\* window and f = B/(B+S), the short window has (f*100, BUY) if f > 0.75,
\* ((1-f)*100, SELL) if f < 0.25 and (50, NEUTR) otherwise, the long window
\* the same with 0.70 and 0.30; f at a threshold gives (50, NEUTR), and so
\* does B+S = 0
C26_FlowThresholds ==
  /\ FlowShort(0, 0) = [pct |-> 50000, dir |-> "NEUTR"]
  /\ FlowLong(0, 0) = [pct |-> 50000, dir |-> "NEUTR"]
  /\ last.op = "trade" =>
       LET t == trades[last.pair]
           fs == ClaimedFlow(SumVol(t.recent_buys), SumVol(t.recent_sells),
                             75, 25, 100)
           fl == ClaimedFlow(SumVol(t.recent_buys_5m),
                             SumVol(t.recent_sells_5m), 70, 30, 100)
       IN  /\ t.last_flow_pct = fs.pct /\ t.last_dir = fs.dir
           /\ t.last_flow_pct_5m = fl.pct /\ t.last_dir_5m = fl.dir

\* a trade has left the short window at a buy fraction of exactly 0.75 and
\* the long window, which holds more, beyond its threshold
C26_Witness ==
  /\ last.op = "trade"
  /\ LET t == trades[last.pair]
     IN  /\ SumVol(t.recent_buys) = 3 /\ SumVol(t.recent_sells) = 1
         /\ t.last_dir = "NEUTR"
         /\ SumVol(t.recent_buys_5m) > 3
         /\ t.last_dir_5m = "BUY"

\* no fresh book as the claim has it: none, or one more than 10 s older than
\* the trade, or one from after the trade
NoFreshBook(ob, ts_int) ==
  \/ ~ob.present
  \/ ob.timestamp < ts_int - 10
  \/ ob.timestamp > ts_int

\* what the trade of last does to engine e
LastTradeOn(e) ==
  HandleTrade(e, last.pair, last.price, last.volume, last.side, last.ts)

\* the engine the trade of last found, its pair's book replaced by ob
WithBook(ob) == [ last.e0 EXCEPT !.orderbooks[last.pair] = ob ]

\* C27: a trade on a pair without a fresh order book (none, one more than
\* 10 s older than the trade, one from after the trade) gets no order-book
\* bonus on whale_score and no order-book term in whale_pred_score: it
\* leaves the engine as it would with no book at all
C27_NoFreshBookNoBonus ==
  (last.op = "trade"
     /\ NoFreshBook(last.e0.orderbooks[last.pair], Floor(last.ts))) =>
    /\ trades = LastTradeOn(WithBook(NoOrderbook)).trades
    /\ signals = LastTradeOn(WithBook(NoOrderbook)).signals

\* a trade has met a book 11 s old, or one from after it, whose levels
\* would have changed its scores had the book been of the trade's second
C27_Witness ==
  /\ last.op = "trade"
  /\ LET ob == last.e0.orderbooks[last.pair]
     IN  /\ ob.present
         /\ NoFreshBook(ob, Floor(last.ts))
         /\ LastTradeOn(WithBook([ ob EXCEPT !.timestamp = Floor(last.ts) ])).trades
              # trades

\* C29: a trade is a whale exactly when its notional is greater than 5000
\* and greater than 2.5 times the pair's EWMA notional as it was before the
\* trade
C29_WhaleByPriorEwma ==
  (last.op = "trade" /\ IsSome(last.e0.trades[last.pair].ewma_notional)) =>
    LET notional == last.price * last.volume
        n0 == last.e0.trades[last.pair].ewma_notional[1]
    IN  trades[last.pair].last_whale <=>
          (notional > 5000 /\ Milli(notional) * 10 > n0 * 25)

\* ---- C30
\* the prediction label the pair's TradeState holds when the trade arrives:
\* the label of the pair's previous trade, NONE when there was none or when
\* the sweep has evicted the TradeState since
HeldPredLabel ==
  IF last.before.any /\ ~last.before.evicted
    THEN last.before.pred_label ELSE "NONE"

\* the prediction label of the pair's previous trade, whatever happened since
PreviousPredLabel ==
  IF last.before.any THEN last.before.pred_label ELSE "NONE"

PredEdge(held) ==
  last.op = "trade" =>
    LET lbl == UnwrapOr(TradedState.whale_pred_label, "NONE")
        evs == EventsOf({"WH_PRED"})
    IN  IF lbl = "HIGH" /\ held # "HIGH"
          THEN Len(evs) = 1 /\ evs[1].direction = "BUY"
          ELSE evs = <<>>

\* C30 (amended): handle_trade pushes a WH_PRED event (direction BUY)
\* exactly when the trade's prediction label is HIGH and the label the
\* pair's TradeState holds is not HIGH, which is the label of the pair's
\* previous trade unless the sweep has evicted the TradeState since; so a
\* run of HIGH trades with no eviction in between pushes one WH_PRED event.
C30_PredEdge == PredEdge(HeldPredLabel)

\* a trade that is HIGH after a HIGH trade and pushes no WH_PRED event
C30_Witness ==
  /\ last.op = "trade"
  /\ last.before.any /\ ~last.before.evicted
  /\ last.before.pred_label = "HIGH"
  /\ UnwrapOr(TradedState.whale_pred_label, "NONE") = "HIGH"
  /\ EventsOf({"WH_PRED"}) = <<>>

\* C30 as stated: the comparison is with the label of the pair's previous
\* trade, so consecutive HIGH trades push one WH_PRED event.
C30_Original == PredEdge(PreviousPredLabel)

\* ---- C31
\* the flag (early or alpha) the pair's TradeState holds when the trade
\* arrives: the one of the pair's previous trade, NONE when there was none
\* or when the sweep has evicted the TradeState since
HeldFlag(f) ==
  IF last.before.any /\ ~last.before.evicted THEN last.before[f] ELSE "NONE"

\* the flag of the pair's previous trade, whatever happened since
PreviousFlag(f) == IF last.before.any THEN last.before[f] ELSE "NONE"

\* early and alpha as the rating and the short-window direction give them,
\* and an EARLY and an ALPHA event exactly on the edge against held
FlagsAndEdges(held(_)) ==
  last.op = "trade" =>
    LET t == TradedState
        rating == UnwrapOr(t.last_rating, "NONE")
        early == UnwrapOr(t.last_early, "NONE")
        alpha == UnwrapOr(t.last_alpha, "NONE")
    IN  /\ (t.last_dir = "BUY" /\ rating \in {"EARLY BUY", "BUY"})
              => (early = "BUY" /\ alpha = "NONE")
        /\ (t.last_dir = "BUY" /\ rating \in {"STRONG BUY", "ALPHA BUY"})
              => (early = "BUY" /\ alpha = "BUY")
        /\ (t.last_dir # "BUY" \/ rating = "NONE")
              => (early = "NONE" /\ alpha = "NONE")
        /\ Len(EventsOf({"EARLY"})) =
              (IF early = "BUY" /\ held("early") # "BUY" THEN 1 ELSE 0)
        /\ Len(EventsOf({"ALPHA"})) =
              (IF alpha = "BUY" /\ held("alpha") # "BUY" THEN 1 ELSE 0)

\* C31 (amended): after each trade early and alpha follow from the rating
\* and the short-window direction (BUY with EARLY BUY or BUY: early only;
\* BUY with STRONG BUY or ALPHA BUY: both; otherwise neither), and an EARLY
\* (ALPHA) event is pushed exactly when early (alpha) is BUY and the flag
\* the pair's TradeState holds is not, which is the flag of the pair's
\* previous trade unless the sweep has evicted the TradeState since.
C31_FlagsAndEdges == FlagsAndEdges(HeldFlag)

\* a trade that leaves early and alpha at BUY after a trade that did, and
\* pushes neither event
C31_Witness ==
  /\ last.op = "trade"
  /\ last.before.any /\ ~last.before.evicted
  /\ last.before.early = "BUY" /\ last.before.alpha = "BUY"
  /\ UnwrapOr(TradedState.last_early, "NONE") = "BUY"
  /\ UnwrapOr(TradedState.last_alpha, "NONE") = "BUY"
  /\ EventsOf({"EARLY", "ALPHA"}) = <<>>

\* C31 as stated: the edges are against the flags after the pair's previous
\* trade
C31_Original == FlagsAndEdges(PreviousFlag)

\* ---- C34
\* a trade handler holds the pair's entry in trades and waits for the entry
\* in tickers, which the ticker handler holds while it waits for the entry
\* in trades
TradeTickerDeadlock(p) ==
  \E t \in Workers :
    /\ tasks[t].pc = "tickers.get" /\ tasks[t].op.pair = p
    /\ locks[<<"trades", p>>] = t
    /\ tasks[Scanner].pc = "trades.entry" /\ tasks[Scanner].op.pair = p
    /\ locks[<<"tickers", p>>] = Scanner

\* C34: a trade handler and a ticker handler on one pair never deadlock: no
\* state is reached in which the trade handler holds the TradeState lock
\* and waits for the TickerState while the ticker handler holds the
\* TickerState lock and waits for the TradeState lock
C34_NoTradeTickerDeadlock == \A p \in Pairs : ~TradeTickerDeadlock(p)

\* ---- C33
\* C33: after a sweep at time now with no handler under way, no TradeState
\* older than 12 h, no OrderbookState older than 60 s and no opened candle
\* older than 24 h (or without last_ts) is left, recent_anom is false on
\* every TradeState older than 5 h, and what lies inside the cutoffs is as
\* it was (a TradeState between 5 h and 12 h but for its recent_anom)
C33_SweepCutoffs ==
  last.op = "cleanup" =>
    \A p \in Pairs :
      LET t0 == last.e0.trades[p]
          c0 == last.e0.candles[p]
          b0 == last.e0.orderbooks[p]
      IN  /\ trades[p].present => trades[p].last_update_ts >= now - 12 * 3600
          /\ (trades[p].present /\ trades[p].last_update_ts < now - 5 * 3600)
                => ~trades[p].recent_anom
          /\ (candles[p].last_ts = None \/ candles[p].last_ts[1] < now - 24 * 3600)
                => candles[p] = DefaultCandleState
          /\ orderbooks[p].present => orderbooks[p].timestamp >= now - 60
          /\ (t0.present /\ t0.last_update_ts >= now - 12 * 3600)
                => [ trades[p] EXCEPT !.recent_anom = t0.recent_anom ] = t0
          /\ (t0.present /\ t0.last_update_ts >= now - 5 * 3600)
                => trades[p] = t0
          /\ (c0.last_ts # None /\ c0.last_ts[1] >= now - 24 * 3600)
                => candles[p] = c0
          /\ (b0.present /\ b0.timestamp >= now - 60) => orderbooks[p] = b0

\* a sweep that has reset the anomaly flag of a TradeState between 5 h and
\* 12 h old, evicted the TradeState of the other pair and kept a candle
C33_Witness ==
  /\ last.op = "cleanup"
  /\ \E p \in Pairs :
       /\ last.e0.trades[p].present /\ last.e0.trades[p].recent_anom
       /\ trades[p].present /\ ~trades[p].recent_anom
       /\ candles[p] = last.e0.candles[p] /\ candles[p] # DefaultCandleState
  /\ \E q \in Pairs : last.e0.trades[q].present /\ ~trades[q].present

\* C36: after POST /api/config or POST /api/config/reset has answered,
\* config.json holds the configuration that is in memory.
C36_FileEqualsMemory ==
  last.op \in {"config_post", "config_reset"}
    => config.file = Some(config.mem)

\* C37: the sweep never discards a fresh candle: a candle that
\* candles.insert replaces by the default state has a last_ts older than the
\* sweep's cutoff of 24 h (or none), also when a handler has written to it
\* since the sweep's scan.
C37_ResetsOnlyStaleCandles ==
  last.op = "cleanup_insert"
    => UnwrapOr(last.before.last_ts, 0) < last.cutoff

\* ---- C32
\* C32: the weights a trade handler copies for its total score are the
\* weights as a whole pass of the evaluator left them (or the initial
\* ones), never the weights in the middle of a pass.
C32_WholePassWeights ==
  [][ \A t \in Workers :
        (tasks[t].pc = "tickers.get" /\ tasks'[t].pc = "push_signal")
          => tasks'[t].op.w = evaluator.settled ]_vars

\* a trade handler has copied weights that a pass has adjusted
C32_Witness ==
  \E t \in Workers :
    /\ tasks[t].pc = "push_signal"
    /\ tasks[t].op.w # DefaultWeights
    /\ tasks[t].op.w = weights

\* ---- C35
\* a trade handler holds the pair's entry in candles and waits for the
\* mutex of the weights, which the evaluator holds while it waits to read
\* that CandleState
TradeEvaluatorDeadlock(p) ==
  \E t \in Workers :
    /\ tasks[t].pc = "tickers.get" /\ tasks[t].op.pair = p
    /\ locks[<<"candles", p>>] = t
    /\ evaluator.pc = "event" /\ evaluator.i <= Len(signals)
    /\ signals[evaluator.i].pair = p
    /\ NeedsCandle(signals[evaluator.i], evaluator.now)

\* C35: a trade handler and the evaluator never deadlock: no state is
\* reached in which the handler holds a CandleState lock and waits for the
\* weights (or ring) mutex while the evaluator holds both mutexes and waits
\* to read that CandleState
C35_NoTradeEvaluatorDeadlock == \A p \in Pairs : ~TradeEvaluatorDeadlock(p)

\* ---- C39
\* C39: once every paper-trader request under way has finished,
\* manual_trades.json holds the ledger that is in memory and
\* manual_trades_equity.json its equity curve: no request writes an earlier
\* snapshot after a later one.
C39_FilesEqualLedger ==
  ( /\ \A r \in Requests : requests[r].pc = "idle"
    /\ IsSome(disk.manual_trades) )
    => /\ disk.manual_trades = Some(trader)
       /\ disk.manual_equity = Some(trader.equity_curve)

\* ---- C40
\* C40: in every reachable state and for every TradeState, an alpha flag of
\* BUY comes with an early flag of BUY, and an early flag of BUY with a
\* last_dir of BUY; a trade, a ticker sample, a sentiment update and a
\* sweep all keep it so.
C40_FlagChain ==
  \A p \in Pairs :
    trades[p].present =>
      /\ trades[p].last_alpha = Some("BUY") => trades[p].last_early = Some("BUY")
      /\ trades[p].last_early = Some("BUY") => trades[p].last_dir = "BUY"

\* a TradeState with the alpha flag at BUY has been through a sentiment
\* update, a ticker sample or a sweep
C40_Witness ==
  /\ last.op \in {"sentiment", "ticker", "cleanup"}
  /\ \E p \in Pairs :
       trades[p].present /\ trades[p].last_alpha = Some("BUY")

\* ---- C38
\* C38: with the evaluator scheduled fairly, an event that is in the ring
\* with evaluated = false does not stay so: a state follows in which every
\* event of the ring is marked evaluated (the ring does not overflow within
\* the bounds, so no event leaves it).
C38_EventuallyEvaluated ==
  (\E i \in 1..Len(signals) : Open(signals[i]))
    ~> (\A i \in 1..Len(signals) : ~Open(signals[i]))

====
